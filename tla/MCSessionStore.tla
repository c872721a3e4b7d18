--------------------------- MODULE MCSessionStore ---------------------------
\* Three sessions compete for two places while the clock passes the TTL twice.
EXTENDS SessionStore, TLC

CONSTANTS s1, s2, s3, haiku, opus

MCIds == {s1, s2, s3}
MCTiers == {haiku, opus}
=============================================================================
