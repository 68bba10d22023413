------------------------------- MODULE MCSweep -------------------------------
(* Small instances of Sweep: the keys f1 and f1/a are files, u1 an upload.  *)
EXTENDS Sweep, TLC

CONSTANTS f1, u1, f2, u2

Keys == FileKey \cup UploadKey

\* f2 begins with f1, and u2 with u1, as "t/p/f" and "t/p/f/g" do.
Begins ==
  [k \in Keys |-> Keys \cap (IF k = f1 THEN {f1, f2}
                             ELSE IF k = u1 THEN {u1, u2} ELSE {k})]

\* Keys in order, newer versions first.
Order == (f1 :> 0) @@ (f2 :> 1) @@ (u1 :> 2) @@ (u2 :> 3)
Listing == [e \in Keys \X Version |->
              Order[e[1]] * 2 + (IF e[2] = 1 THEN 2 ELSE 1)]

\* f2 has one version; the others have none, one or two when they are queued.
Scope == unborn[f2] = {2}
=============================================================================
