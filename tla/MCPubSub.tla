------------------------------ MODULE MCPubSub ------------------------------
(* A filter with two fields; an article it matches, and one it does not.  s1   *)
(* may be started again; c2 takes the only place at s2, before c1 or after it. *)
EXTENDS PubSub

CONSTANTS s1, s2, c1, c2

MCFilters == {<<"Sports", "Bob", Anything, Anything>>, <<Anything, Anything, Anything, Anything>>}
MCArticles == {<<"Sports", "Bob", "UMN", "text">>, <<"Sports", "Eve", Anything, "text">>}
MCOthers == {<<c2, s2>>}
MCMaxStarts == [s \in Servers |-> IF s = s1 THEN 2 ELSE 1]
============================================================================
