---------------------------- MODULE MCCodeIssue ----------------------------
(* Instance of CodeIssue for TLC.  Requests are interchangeable.           *)
EXTENDS CodeIssue, TLC

RequestSymmetry == Permutations(Requests)

(* Sign-up requests look and insert without a lock and interleave more:    *)
(* their clock stops earlier, when a cooldown has passed.                  *)
ShortSignUps == tokenType = "EMAIL_VERIFY" => clock <= Cooldown + 1
=============================================================================
