----------------------------- MODULE MCUploads -----------------------------
EXTENDS Uploads
=============================================================================
