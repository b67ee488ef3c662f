----------------------------- MODULE MCNodeRegistry -----------------------------
\* The instance of NodeRegistry for TLC: a tick is five seconds.
EXTENDS NodeRegistry

CONSTANTS punctual, slow, judge, special, fast, normal

MCNodes == {punctual, slow}
\* One node runs two groups, which share a route.
MCGroups ==
  [n \in MCNodes |-> IF n = slow THEN {judge, special} ELSE {judge}]

MCBindings ==
  [g \in {judge, special} |-> IF g = judge THEN {fast} ELSE {fast, normal}]

\* The clock of one node is five seconds behind the gateway's.
MCBehind == [n \in MCNodes |-> IF n = slow THEN 1 ELSE 0]
================================================================================
