------------------------------- MODULE Controls -------------------------------
(***************************************************************************)
(* The automation controls of one organization, used by several people at  *)
(* once: the kill switch, the publishing pause and autonomous mode, each a *)
(* field of the organization's row, and the agents' flags, one JSON field  *)
(* that is read, changed for one agent and written back as a whole.        *)
(***************************************************************************)
EXTENDS FiniteSets

CONSTANTS
  Admins,    \* people with the controls open
  AgentKeys, \* the agents that have a flag
  LlmReady,  \* an LLM provider is configured
  Nobody     \* no change

Switches == {"killSwitch", "publishingPaused", "autonomousMode"}

ASSUME ControlsAssumption ==
  LlmReady \in BOOLEAN /\ Nobody \notin AgentKeys

VARIABLES
  switch,  \* the fields of the row
  flags,   \* agentFlags
  change,  \* of each person, setAgentEnabled between its read and its write
  asked,   \* history: what was last asked of each agent
  clean    \* history: agents whose last change nobody overlapped

controlsVars == <<switch, flags, change, asked, clean>>

DEFAULT_AGENT_FLAGS == [k \in AgentKeys |-> TRUE]
NoChange == [key |-> Nobody, enabled |-> FALSE, seen |-> DEFAULT_AGENT_FLAGS]

ControlsTypeOK ==
  /\ switch \in [Switches -> BOOLEAN]
  /\ flags \in [AgentKeys -> BOOLEAN]
  /\ change \in [Admins -> [key : AgentKeys \cup {Nobody}, enabled : BOOLEAN,
                            seen : [AgentKeys -> BOOLEAN]]]
  /\ asked \in [AgentKeys -> BOOLEAN]
  /\ clean \subseteq AgentKeys

ControlsInit ==
  /\ switch = [s \in Switches |-> FALSE]
  /\ flags = DEFAULT_AGENT_FLAGS
  /\ change = [a \in Admins |-> NoChange]
  /\ asked = DEFAULT_AGENT_FLAGS
  /\ clean = AgentKeys

\* One upsert of one field; autonomous mode is refused without an LLM.
SetSwitch(s) ==
  \E value \in BOOLEAN :
    /\ s = "autonomousMode" /\ value => LlmReady
    /\ switch' = [switch EXCEPT ![s] = value]
    /\ UNCHANGED <<flags, change, asked, clean>>

\* setAgentEnabled reads the whole row.
ReadFlags(a, key) ==
  /\ change[a].key = Nobody
  /\ \E enabled \in BOOLEAN :
       change' = [change EXCEPT ![a] =
                  [key |-> key, enabled |-> enabled, seen |-> flags]]
  /\ UNCHANGED <<switch, flags, asked, clean>>

Done(a) ==
  LET key == change[a].key IN
    /\ change' = [change EXCEPT ![a] = NoChange]
    /\ asked' = [asked EXCEPT ![key] = change[a].enabled]
    /\ clean' = IF \A other \in Admins \ {a} : change[other].key = Nobody
                THEN clean \cup {key}
                ELSE clean \ {key}

\* Fault seeded for the mutation check: the other flags go back to their defaults.
WriteFlagsOverDefaults(a) ==
  /\ change[a].key # Nobody
  /\ flags' = [DEFAULT_AGENT_FLAGS EXCEPT ![change[a].key] = change[a].enabled]
  /\ Done(a)
  /\ UNCHANGED switch

\* It writes the flags it read back, with the one changed.
WriteFlags(a) ==
  /\ change[a].key # Nobody
  /\ flags' = [change[a].seen EXCEPT ![change[a].key] = change[a].enabled]
  /\ Done(a)
  /\ UNCHANGED switch

ControlsNext ==
  \/ \E s \in Switches : SetSwitch(s)
  \/ \E a \in Admins : WriteFlags(a) \/ \E key \in AgentKeys : ReadFlags(a, key)

ControlsSpec == ControlsInit /\ [][ControlsNext]_controlsVars

-----------------------------------------------------------------------------
(* Properties.                                                             *)

\* Each change of an agent's flag writes back all the flags it read, so a change may be
\* undone by one that read before it and writes after it, and by nothing else: a change
\* that was written while no other was under way stands, whatever agents are changed
\* after it and however those changes overlap one another.
ControlsStand ==
  \A key \in clean : flags[key] = asked[key]
=============================================================================
