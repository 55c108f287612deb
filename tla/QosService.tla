------------------------------- MODULE QosService -------------------------------
(***************************************************************************)
(* Traffic shaping: api/qos.rs, engine/qos.  There is no file: the kernel  *)
(* is told interface by interface, and a section that cannot be applied is *)
(* taken back.                                                             *)
(***************************************************************************)
EXTENDS ServiceRequests, SequencesExt

Listed(v) == {i \in Item : Knows(v, i)}
Active(v) == {i \in Item : Has(v, "enabled") /\ Has(v, i)}
Shaped(k) == {<<"qos", i, "on">> : i \in Active(k.qos)}

\* apply_config_replacing: what is inactive, or was there before, is cleaned up, then
\* the interfaces are shaped in turn.
QosSteps(before, v) ==
  <<Step("clean", "qos", (Listed(v) \union Listed(before)) \ Active(v))>>
    \o [n \in 1..Cardinality(Active(v)) |->
          Step("shape", "qos", {SetToSeq(Active(v))[n]})]

Unshaped(S) == {e \in run["qos"] : e[2] \notin S}

Clean(p) == Set(p, "clean", "qos", Unshaped(Of(p)))

\* The old discipline is removed before the new one is installed.
Shape(p) ==
  /\ At(p, "shape", "qos")
  /\ LET bad == Of(p) \cap Refused
     IN  IF bad # {}
         THEN Failed(p) /\ run' = [run EXCEPT !["qos"] = Unshaped(Of(p))]
         ELSE /\ Advance(p)
              /\ run' = [run EXCEPT !["qos"] = @ \union {<<"qos", i, "on">> : i \in Of(p)}]
  /\ UNCHANGED <<stored, cache, file, cand, made>>

\* The discipline of an interface is gone when the new one cannot be installed.
ShapeFails(p) ==
  /\ At(p, "shape", "qos") /\ made.faults < MaxFaults
  /\ made' = [made EXCEPT !.faults = @ + 1]
  /\ run' = [run EXCEPT !["qos"] = Unshaped(Of(p))]
  /\ Failed(p)
  /\ UNCHANGED <<stored, cache, file, cand>>

QosValue == {v \in SUBSET ((Item \X {"on", "off"}) \union {<<"enabled", "on">>}) :
               \A i \in Item : ~({<<i, "on">>, <<i, "off">>} \subseteq v)}

\* The section that was loaded at the beginning is put back.
PutConfig(p) == \E v \in QosValue :
  LET r == Request(<<Save("qos")>> \o QosSteps(stored.qos, v), [stored EXCEPT !.qos = v],
                   {"qos"})
  IN  Begin(p, [r EXCEPT !.undo = <<Step("restore", "store", {"qos"})>>
                                    \o QosSteps(v, stored.qos)])

ApplyQos(p) == Begin(p, Request(QosSteps({}, stored.qos), stored, {"qos"}))

QosStartup(k) == QosSteps({}, k.qos)

QosNext(p) == Clean(p) \/ Shape(p) \/ ShapeFails(p) \/ PutConfig(p) \/ ApplyQos(p)
=============================================================================
