------------------------------- MODULE MCCron -------------------------------
(* Cron for TLC: two schedules that meet at second 3, and the chains        *)
(* that recover from panics, skip or delay.                                  *)
EXTENDS Cron

Everys == {{2, 3}, {3}}
OneTask == <<{2, 3}>>
AllChains == {<<"recover", "skip">>, <<"delay">>}
SkipChain == {<<"skip">>}
=============================================================================
