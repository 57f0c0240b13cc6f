------------------------------ MODULE HttpPath ------------------------------
(***************************************************************************)
(* Canonical request paths. A path is a sequence of characters.            *)
(***************************************************************************)
EXTENDS SequencesExt

Root == <<"/">>

(* path.Clean, element by element: "." and repeated slashes vanish, ".."    *)
(* takes the element before it away and stops at the root.                  *)
Resolve(elements, e) ==
  IF e \in {<<>>, <<".">>} THEN elements
  ELSE IF e # <<".", ".">> THEN Append(elements, e)
  ELSE IF elements = <<>> THEN <<>> ELSE Front(elements)

(* A slash ends the element begun before it. *)
Scan(acc, c) ==
  IF c = "/" THEN [done |-> Resolve(acc.done, acc.e), e |-> <<>>]
  ELSE [acc EXCEPT !.e = Append(@, c)]

Elements(p) ==
  LET q == p \o Root
      scan[i \in 0 .. Len(q)] ==
        IF i = 0 THEN [done |-> <<>>, e |-> <<>>] ELSE Scan(scan[i - 1], q[i])
  IN  scan[Len(q)].done

Clean(p) ==
  LET e == Elements(p)
  IN  IF e = <<>> THEN Root ELSE FlattenSeq([i \in 1 .. Len(e) |-> Root \o e[i]])

(* The mutant cleans repeated slashes and forgets one at the end. *)
CleanPathDroppingSlash(p) == Clean(Root \o p)

(* The mutant leaves a path that ends with a slash as it is. *)
CleanPathTrustingSlash(p) == IF p # <<>> /\ Last(p) = "/" THEN p ELSE Clean(Root \o p)

(* path.Clean removes a trailing slash, cleanPath puts it back. *)
CleanPath(p) ==
  LET q == IF p # <<>> /\ Head(p) = "/" THEN p ELSE Root \o p
  IN  IF Last(q) = "/" /\ Clean(q) # Root THEN Clean(q) \o Root ELSE Clean(q)
=============================================================================
