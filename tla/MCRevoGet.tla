------------------------------- MODULE MCRevoGet -------------------------------
EXTENDS RevoGet

\* Two block files.  In the first volume the first file ends with a buffer that is
\* just full; in the second the first file is only a header and the used sector is
\* one too far for a disk of 5.
MCVolumes == {[lg |-> 2, used |-> {0, 2, 3}], [lg |-> 2, used |-> {4}]}
MCMissing == {1}
================================================================================
