---------------------------- MODULE MCAnyClient ----------------------------
EXTENDS AnyClient
=============================================================================
