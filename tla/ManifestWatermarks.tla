-------------------------- MODULE ManifestWatermarks --------------------------
(***************************************************************************)
(* What the manifest histories promise: a manifest reported as verified    *)
(* under a trust anchor never lies behind one reported before, and a       *)
(* replacement anchor takes over what was reported under the previous one. *)
(* Crashes, refused paths and failed writes are stuttering steps.          *)
(***************************************************************************)
EXTENDS Integers

CONSTANTS Anchors, Manifests, Version, None

VARIABLE mark   \* of each anchor and manifest, the latest version reported

\* Version w may be reported after version v: the same, or newer by its number
\* and by its time.
Follows(v, w) ==
  v # None => w # None /\ (w = v \/ (w.number > v.number /\ w.time > v.time))

Init == mark = [a \in Anchors |-> [m \in Manifests |-> None]]

Report(a, seen) ==
  /\ \A m \in Manifests : seen[m] # None => Follows(mark[a][m], seen[m])
  /\ mark' = [mark EXCEPT ![a] =
                [m \in Manifests |-> IF seen[m] # None THEN seen[m] ELSE mark[a][m]]]

Later(v, w) == IF v = None \/ (w # None /\ v.number <= w.number) THEN w ELSE v

Replace(a, b) ==
  mark' = [mark EXCEPT ![b] = [m \in Manifests |-> Later(mark[a][m], mark[b][m])]]

Next ==
  \/ \E a \in Anchors, seen \in [Manifests -> Version \cup {None}] : Report(a, seen)
  \/ \E a, b \in Anchors : a # b /\ Replace(a, b)

Spec == Init /\ [][Next]_mark
=============================================================================
