---------------------------- MODULE MCForkChoice ----------------------------
EXTENDS ForkChoice

MCGenesis == <<0, 1>>

(* Two versions of slot 1, each with a block on top.                       *)
Duplicates == (<<1, 1>> :> <<0, 1>>) @@ (<<1, 2>> :> <<0, 1>>) @@ (<<2, 1>> :> <<1, 1>>)
              @@ (<<3, 1>> :> <<1, 2>>)

(* Two forks, on which a vote has ancestors that the other fork has not.   *)
Forks == (<<1, 1>> :> <<0, 1>>) @@ (<<2, 1>> :> <<1, 1>>) @@ (<<3, 1>> :> <<2, 1>>)
         @@ (<<4, 1>> :> <<0, 1>>) @@ (<<5, 1>> :> <<4, 1>>)

MCTrees == {Duplicates, Forks}

(* The account that is the heavier one changes between the epochs, and one *)
(* has no stake in the last.                                               *)
MCEpochStakes == (0 :> ("a" :> 2 @@ "b" :> 1)) @@ (1 :> ("a" :> 2 @@ "b" :> 3))
                 @@ (2 :> ("b" :> 1))

====
