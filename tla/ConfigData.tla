----------------------------- MODULE ConfigData -----------------------------
(***************************************************************************)
(* A configuration as a value: the channels, the saved VODs with their     *)
(* durations and the blacklist of those that were removed; and the changes *)
(* of it, which the manager makes to the database and to its memory alike  *)
(* (twitch/manager).                                                       *)
(***************************************************************************)
EXTENDS Functions

CONSTANTS
    Channel, Vod, Duration,
    None            \* no change

Record == UNION {[S -> Duration] : S \in SUBSET Vod}
Config == [channels : SUBSET Channel, vods : Record, blacklist : SUBSET Vod]
Kind == {"addChannel", "removeChannel", "addVOD", "removeVOD", "import", "durations"}

NoVods == [v \in {} |-> None]
NoChange == [kind |-> "import", on |-> {}, vods |-> NoVods]
Empty == [channels |-> {}, vods |-> NoVods, blacklist |-> {}]

Change(kind, on, vods) == [kind |-> kind, on |-> on, vods |-> vods]

OfChannel(o) == o.kind \in {"addChannel", "removeChannel"}

\* The changes, as the SQL statements and as the assignments to the memory make them.
AddChannel(conf, o) == [conf EXCEPT !.channels = @ \cup o.on]
RemoveChannel(conf, o) == [conf EXCEPT !.channels = @ \ o.on]
AddVODs(conf, o) ==
    [conf EXCEPT !.vods = [v \in DOMAIN @ \cup o.on |->
                              IF v \in o.on THEN o.vods[v] ELSE @[v]]]
AddVOD(conf, o) == [AddVODs(conf, o) EXCEPT !.blacklist = @ \ o.on]
RemoveVOD(conf, o) ==
    [conf EXCEPT !.vods = Restrict(@, DOMAIN @ \ o.on), !.blacklist = @ \cup o.on]

UpdateDurations(conf, o) ==
    [conf EXCEPT !.vods = [v \in DOMAIN @ |-> IF v \in o.on THEN o.vods[v] ELSE @[v]]]

Changed(conf, o) ==
    CASE o.kind = "addChannel"    -> AddChannel(conf, o)
      [] o.kind = "removeChannel" -> RemoveChannel(conf, o)
      [] o.kind = "addVOD"        -> AddVOD(conf, o)
      [] o.kind = "removeVOD"     -> RemoveVOD(conf, o)
      [] o.kind = "import"        -> AddVODs(conf, o)
      [] o.kind = "durations"     -> UpdateDurations(conf, o)

-----------------------------------------------------------------------------
(* What is decided by a look at the configuration.                         *)

\* Mutant: an import does not ask the blacklist.
WantedAnyway(conf, o) ==
    CASE o.kind \in {"addChannel", "removeChannel"} -> o.on
      [] o.kind \in {"addVOD", "removeVOD"}         -> o.on
      [] o.kind = "import"    -> o.on \ DOMAIN conf.vods
      [] o.kind = "durations" -> {v \in o.on \cap DOMAIN conf.vods : conf.vods[v] # o.vods[v]}

\* What is left of a change: an import leaves out what is saved or blacklisted, an update
\* what is not saved or has not changed.
Wanted(conf, o) ==
    CASE o.kind \in {"addChannel", "removeChannel"} -> o.on
      [] o.kind \in {"addVOD", "removeVOD"}         -> o.on
      [] o.kind = "import"    -> (o.on \ DOMAIN conf.vods) \ conf.blacklist
      [] o.kind = "durations" -> {v \in o.on \cap DOMAIN conf.vods : conf.vods[v] # o.vods[v]}

Valid(conf, o) ==
    CASE o.kind = "addChannel"    -> o.on \cap conf.channels = {}
      [] o.kind = "removeChannel" -> o.on \subseteq conf.channels
      [] o.kind = "addVOD"        -> o.on \cap DOMAIN conf.vods = {}
      [] o.kind = "removeVOD"     -> o.on \subseteq DOMAIN conf.vods
      [] o.kind = "import"        -> Wanted(conf, o) # {}
      [] o.kind = "durations"     -> TRUE
=============================================================================
