--------------------------- MODULE MCDriveSession --------------------------
EXTENDS DriveSession, TapeOps

AllOf(n) == [p \in {0, 1} |-> n]
OneOf == AllOf(1)
TwoOf == AllOf(2)
ThreeOf == AllOf(3)

Setup6(kind, device, crc, dump) ==
    [kind |-> kind, device |-> device, opt |-> [crc |-> crc, dump |-> dump, sili |-> FALSE]]

SixSetups ==
    {Setup6("ibmtape", "IBM_3592", TRUE, TRUE), Setup6("ibmtape", "IBM_3580", FALSE, FALSE),
     Setup6("iokit", "IBM_3580", TRUE, TRUE), Setup6("iokit", "IBM_3592", FALSE, FALSE),
     Setup6("ltotape", "LTO6", FALSE, TRUE), Setup6("ltotape", "LTO7", FALSE, TRUE)}
============================================================================
