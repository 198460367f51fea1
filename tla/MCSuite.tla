------------------------------- MODULE MCSuite -------------------------------
(* Instances of Suite for TLC. *)
EXTENDS Suite, TLC

CONSTANTS c, d

\* Two releases, of which the later has no hash in its archive, and a pseudo-version.
Hashes == (1 :> <<1, 2>> @@ 2 :> <<>> @@ 3 :> <<2, 1>>)
Asked == {<<1>>, <<2, 1, 2>>}

Files(e, f, g) == (0 :> "absent" @@ 1 :> e @@ 2 :> f @@ 3 :> g)

Plan == [files |-> <<<<0>>>>, runner |-> "testing", parallel |-> 2, run |-> {1}, keep |-> FALSE,
         deadline |-> FALSE, proxy |-> 0, disk |-> Files("absent", "absent", "absent"),
         ends |-> {"pass"}, requests |-> 0, kinds |-> {}, edits |-> {}, background |-> {}]

\* "a.txt", "a.txtar" and "a#1.txt" in both orders.
Many(p) == {[p EXCEPT !.files = f] : f \in {<<<<0>>, <<0>>, <<0, 1>>>>, <<<<0, 1>>, <<0>>, <<0>>>>}}

Directories ==
  UNION {Many([Plan EXCEPT !.runner = r, !.run = {1, 2, 3}, !.keep = k, !.deadline = ~k,
                           !.ends = {"pass", "fail", "skip", "panic"}])
           : r \in Runners, k \in BOOLEAN}
    \cup Many([Plan EXCEPT !.run = {1, 3}, !.deadline = TRUE])

\* A script with a proxy, alone or beside another.
Proxy(n, kinds, e, f, g, edits) ==
  [Plan EXCEPT !.proxy = 1, !.requests = n, !.kinds = kinds, !.disk = Files(e, f, g), !.edits = edits]

Proxies ==
  {Proxy(3, {"zip", "latest"}, "first", "first", "absent", {2}),
   Proxy(3, {"info", "revision"}, "first", "absent", "first", {2}),
   Proxy(2, {"revision"}, "first", "first", "first", {}),
   [Proxy(2, {"zip", "info"}, "first", "absent", "absent", {}) EXCEPT
     !.files = <<<<0>>, <<0>>>>, !.run = {1, 2}, !.background = {d}, !.ends = {"pass", "fail"}],
   [Proxy(2, {"info", "revision"}, "absent", "broken", "first", {}) EXCEPT !.deadline = TRUE]}

AllPlans == Directories \cup Proxies
=============================================================================
