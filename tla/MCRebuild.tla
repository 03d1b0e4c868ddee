----------------------------- MODULE MCRebuild -----------------------------
EXTENDS Rebuild

=============================================================================
