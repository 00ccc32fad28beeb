-------------------------- MODULE MCDuplicateSlots --------------------------
EXTENDS DuplicateSlots

MCGenesis == <<0, 1>>

(* Three versions of slot 1: one that fails replay, and two with a block   *)
(* on top.                                                                 *)
MCTree == (<<1, 0>> :> <<0, 1>>) @@ (<<1, 1>> :> <<0, 1>>) @@ (<<1, 2>> :> <<0, 1>>) @@ (<<2, 1>> :> <<1, 1>>)
          @@ (<<2, 2>> :> <<1, 2>>)

AnyTip == {k \in DOMAIN Tree : k[2] # 0}
SlotOneTip == {<<1, 1>>}

(* When samples do not depend on the confirmed fork, a fork that ends at   *)
(* slot 1 adds nothing to one of whose blocks only slot 1 gets confirmed.  *)
SlotTwoTips == {<<2, 1>>, <<2, 2>>}

====
