------------------------------ MODULE MCCaptcha ------------------------------
(***************************************************************************)
(* Captcha for TLC.                                                        *)
(***************************************************************************)
EXTENDS Captcha, TLC

Symmetry == Permutations(Ids) \cup Permutations(Ips)
            \cup Permutations(Answers) \cup Permutations(Calls)
=============================================================================
