---------------------------- MODULE MCAutoConfig ----------------------------
\* AutoConfig with two values for the fields that decide and for the others.
EXTENDS AutoConfig
=============================================================================
