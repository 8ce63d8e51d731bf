--------------------------- MODULE MCRevisionUpload ---------------------------
(* Small instances of RevisionUpload: two clients that send overlapping     *)
(* contents to one document, and a client that changes what it sends.       *)
EXTENDS RevisionUpload, TLC

CONSTANTS h1, h2, u1, u2, u3, p1, d1, d2, d3

First(d) == [digest |-> d, supersedes |-> None]
After(d, e) == [digest |-> d, supersedes |-> e]

\* The uploads are meant for the same document.
OneDocument == u1 :> p1 @@ u2 :> p1 @@ u3 :> p1

\* u2 sends the same bytes as u1, or changes its mind under its key and sends
\* a revision that supersedes them; u3 sends another one that supersedes them.
Overlapping == u1 :> {First(d1)} @@ u2 :> {First(d1), After(d2, d1)} @@ u3 :> {After(d3, d1)}

\* One upload that its client repeats without change.
OneUpload == u1 :> p1
OneContent == u1 :> {First(d1)}

Symmetry == Permutations(Requests)

=============================================================================
