----------------------------- MODULE MCBaseModel -----------------------------
(* BaseModel on small instances: a UDP receiver u and a TCP receiver t.     *)
EXTENDS BaseModel

CONSTANTS u, t, a, b, a0, a0again, a1, a2, b0, t0, t1, t2

(* Of the UDP peers one retransmits number 0 and the other begins in        *)
(* between, or one goes on until the numbers end; the TCP packets carry     *)
(* number 0, but for one, which is consumed and dropped.                    *)
MixedStreams ==
  (u :> {<<a0, b0, a0again, a1>>, <<a0, a1, a2>>}) @@ (t :> {<<t0, t2>>})

ShortStreams ==
  (u :> {<<a0, a1>>}) @@ (t :> {<<t0, t2, t1>>})

Senders ==
  (a0 :> a) @@ (a0again :> a) @@ (a1 :> a) @@ (a2 :> a) @@ (b0 :> b)
    @@ (t0 :> a) @@ (t1 :> a) @@ (t2 :> a)

Numbers ==
  (a0 :> 0) @@ (a0again :> 0) @@ (a1 :> 1) @@ (a2 :> 2) @@ (b0 :> 0)
    @@ (t0 :> 0) @@ (t1 :> 0) @@ (t2 :> 1)

Sizes ==
  (a0 :> 1) @@ (a0again :> 1) @@ (a1 :> 1) @@ (a2 :> 1) @@ (b0 :> 2)
    @@ (t0 :> 1) @@ (t1 :> 0) @@ (t2 :> 1)
=============================================================================
