-------------------------------- MODULE MCCli --------------------------------
(* Two sessions at a time. Alice has a coin that pays for a channel with   *)
(* change of exactly the dust limit and one that does not pay for it alone,*)
(* Bob has too little for the full capacity, Dave change below the limit.  *)
EXTENDS Cli, TLC
MCSymmetry == Permutations(Sessions)
MCCoins == <<[owner |-> "Alice", value |-> 7], [owner |-> "Alice", value |-> 4],
             [owner |-> "Bob", value |-> 4], [owner |-> "Dave", value |-> 6]>>
MCCommands == {<<"Alice", "Bob">>, <<"Bob", "Dave">>, <<"Dave", "Bob">>}
MCSimLinks == {<<"Alice", "Bob">>, <<"Bob", "Dave">>}
=============================================================================
