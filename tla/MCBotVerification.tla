------------------------- MODULE MCBotVerification -------------------------
(* Small instances of the verification of uploaded bots for TLC. *)
EXTENDS BotVerification, TLC

CONSTANTS r1, r2, bot1, bot2

Twice == {r1, r2}                              \* the same bot is uploaded twice
TwoUploads == {bot1, bot2}
UploadTwice == (r1 :> bot1) @@ (r2 :> bot1)
ThreeAndOne == (r1 :> 3) @@ (r2 :> 1)
OneReplyEach == (r1 :> 1) @@ (r2 :> 1)
SomeGames == {bot1}
NoLoss == Reply \ {"loss"}                     \* nothing tells it from "error"
=============================================================================
