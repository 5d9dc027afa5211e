--------------------------- MODULE MCReviewRetry ---------------------------
(* ReviewRetry for TLC; the values are those of labeler/config.py, except  *)
(* that 180 days are cut to 30 hours, longer than either TTL.              *)
EXTENDS ReviewRetry
=============================================================================
