---- MODULE MCProcessing ----
(* Small instances of Processing. *)
EXTENDS Processing, TLC

CONSTANTS f1, f2, a, b, x, s1, s2, w1, w2, w3, r1, r2, k1

(* The files share the order id x and the AWB b, in opposite order. *)
Label(ids, outcome) == [ids |-> ids, outcome |-> outcome]
TwoFiles ==
  (f1 :> << Label({a, x}, {"resolved", "needs_review"}), Label({b}, {"resolved"}) >>) @@
  (f2 :> << Label({b}, {"resolved"}), Label({x}, {"needs_review"}) >>)

(* They may bring the same file, or different files with one key. *)
Content(f, k) == [file |-> f, key |-> k]
TwoRequests == (r1 :> {Content(f1, k1)}) @@
               (r2 :> {Content(f1, None), Content(f2, None), Content(f2, k1)})

(* Two goroutines of the first process, one of the second. *)
ThreeWorkers == (w1 :> s1) @@ (w2 :> s1) @@ (w3 :> s2)
==============================
