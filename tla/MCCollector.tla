---------------------------- MODULE MCCollector ----------------------------
(* Two devices with or without a name, RSSIs on both sides of both        *)
(* thresholds.                                                             *)
EXTENDS SnifferCollector

CONSTANTS a1, a2, name

MCAddresses == {a1, a2}
MCNames == {name, NoName}
MCRSSIs == {-61, -60, -58, -55}
Exchange == Permutations(MCAddresses)
MCFetchSizes == {-1, 2}
=============================================================================
