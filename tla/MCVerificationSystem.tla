------------------------ MODULE MCVerificationSystem ------------------------
(* A small instance of the hub and the verification together for TLC. *)
EXTENDS VerificationSystem, TLC

CONSTANTS c1, u1, u2, b1, chess, profile, bot1

OneClient == {c1}
TwoUsers == {u1, u2}
OneSlug == {chess}
OneBot == {b1}
AuthorOfOne == (b1 :> u1)
SlugOfOne == (b1 :> chess)
OneGame == (chess :> chess)
OneUpload == {bot1}
UploadOfOne == (b1 :> bot1)
TwoReplies == (b1 :> 2)
SomeReplies == {"status", "loss"}
=============================================================================
