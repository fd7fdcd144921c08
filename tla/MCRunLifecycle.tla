--------------------------- MODULE MCRunLifecycle ---------------------------
EXTENDS RunLifecycle

CONSTANTS k1, k2

MCKeyframe == <<k1, k2>>
MCContents == {1, 2}
=============================================================================
