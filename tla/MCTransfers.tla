---------------------------- MODULE MCTransfers ----------------------------
EXTENDS Transfers

CONSTANT u1
BothUploadersAllDirs == [u \in Uploaders |-> CleanDirs]
=============================================================================
