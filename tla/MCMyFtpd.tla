------------------------------ MODULE MCMyFtpd ------------------------------
EXTENDS MyFtpd
=============================================================================
