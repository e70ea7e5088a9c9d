--------------------------- MODULE MCMappingPage ---------------------------
(* A strong suggestion and one to be reviewed.                             *)
EXTENDS MappingPage

CONSTANTS s1, s2

MCSuggestions == {[sii |-> s1, status |-> "active", high |-> TRUE],
                  [sii |-> s2, status |-> "review", high |-> FALSE]}
MCFilters == {"all", "suggested"}
=============================================================================
