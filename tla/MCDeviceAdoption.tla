---------------------------- MODULE MCDeviceAdoption ----------------------------
\* DeviceAdoption with the lookup's wait and an adoption's that tolerates one absence.
EXTENDS DeviceAdoption

MCAdoptConf == [RetryConf EXCEPT !.NotFoundChecks = 1]
MCConfs == {RetryConf, MCAdoptConf}
=================================================================================
