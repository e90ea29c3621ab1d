---------------------------- MODULE MCBroadcast ----------------------------
(* Model-checking instance of Broadcast: campaigns of the bot and of the API that
   address one or both of two users, and one of each that addresses nobody. *)
EXTENDS Broadcast, TLC

CONSTANTS bot1, bot2, api1, api2

MCAudience == [c \in Campaigns |->
  CASE c = bot1 -> {1, 2} [] c = api1 -> {2} [] OTHER -> {}]
=============================================================================
