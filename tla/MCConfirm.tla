------------------------------- MODULE MCConfirm -------------------------------
(* Confirm for TLC: Telegram's handler threads are interchangeable. *)
EXTENDS Confirm, TLC

Symmetry == Permutations(TelegramWorkers)
================================================================================
