-------------------------- MODULE MCLookupPipeline --------------------------
EXTENDS LookupPipeline

\* A turn of the wheel towards a longer choice, and one back.
OneUp    == {1}
UpOrDown == {-1, 1}
=============================================================================
