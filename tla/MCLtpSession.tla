---------------------------- MODULE MCLtpSession ----------------------------
EXTENDS LtpSession
=============================================================================
