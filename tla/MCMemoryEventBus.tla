-------------------------- MODULE MCMemoryEventBus --------------------------
(* MemoryEventBus on a small instance: two consumers compete for events,  *)
(* nobody takes the realtime subject.                                      *)
EXTENDS MemoryEventBus, TLC

CONSTANTS m1, m2, m3, c1, c2

MCMessages == {m1, m2, m3}
MCConsumers == {c1, c2}
MCSubjectOf ==
  m1 :> "event" @@ m2 :> "event" @@ m3 :> "realtime"
    @@ c1 :> "event" @@ c2 :> "event"
=============================================================================
