--------------------------- MODULE MCPublishReview ---------------------------
(* Instances of PublishReview for TLC: two findings and two head commits.    *)
EXTENDS PublishReview, TLC

CONSTANTS f1, f2, sha1, sha2

MCFindings == {f1, f2}
MCShas == {sha1, sha2}
MCSymmetry == Permutations(MCFindings)
==============================================================================
