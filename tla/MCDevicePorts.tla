---------------------------- MODULE MCDevicePorts ----------------------------
\* DevicePorts on two ports and three members: poe_mode, a text member, a computed
\* switch and op_mode.
EXTENDS DevicePorts

CONSTANTS poe, auto, op, zero, v

Block(p, n, a, o) ==
    [index |-> p, set |-> [m \in {poe, auto, op} |->
        IF m = poe THEN n ELSE IF m = auto THEN a ELSE o]]

MCPorts == {1, 2}
MCMembers == {poe, auto, op}

\* No block; a block with nothing but its index; a default op_mode; one member;
\* explicit zeros; two ports with the same, with different and with overlapping
\* member sets; one port named twice, in both orders.
MCConfigs ==
    {<<>>,
     <<Block(1, Null, Null, Null)>>,
     <<Block(1, v, Null, zero)>>,
     <<Block(1, zero, zero, Null), Block(2, Null, Null, v)>>,
     <<Block(1, v, Null, Null), Block(2, v, Null, Null)>>,
     <<Block(1, v, Null, Null), Block(2, zero, v, Null)>>,
     <<Block(2, Null, v, Null), Block(1, v, Null, Null)>>,
     <<Block(1, v, Null, Null), Block(1, Null, v, Null)>>,
     <<Block(1, Null, v, Null), Block(2, Null, v, v), Block(1, v, Null, Null)>>}
=============================================================================
