---------------------------- MODULE MCServices ----------------------------
(***************************************************************************)
(* The services around the event store, one at a time: accounts, saved     *)
(* resources, feature flags, storage bootstrap, the forwarder, the         *)
(* importer and the login throttle.  They share no state in memory, and    *)
(* control.db serves each of them one command at a time.                   *)
(***************************************************************************)
EXTENDS Control, Resources, FlagStore, FlagEval, FlagContinuity, Bootstrap,
        Forwarder, Import, Throttle, TLC

CONSTANT Parts       \* the services this model checks

VARIABLE part        \* the one that runs

\* Floating point with Scale = 16: every percentage up to 16 is an f64, and so is every
\* fraction up to 8; above, every second one.  A tie rounds to an even last digit.
Nearest(x, limit) ==
    IF x <= limit \/ x % 2 = 0 THEN x ELSE IF (x \div 2) % 2 = 0 THEN x - 1 ELSE x + 1
PercentNearest == [x \in Sums |-> Nearest(x, 16)]
FractionNearest == [x \in Sums |-> Nearest(x, 8)]

List(rollouts) == [n \in DOMAIN rollouts |-> [key |-> <<"va", "vb", "vc">>[n], rollout |-> rollouts[n]]]
\* Two halves; 15 of 16, which is within the slack; 13, 1 and 2, which add up to 16 of
\* 16 but as fractions to 14; and three lists that are refused.
SomeVariantLists ==
    {<<>>, List(<<8, 8>>), List(<<2, 13>>), List(<<13, 1, 2>>),
     List(<<8>>), List(<<8, 6>>), <<[key |-> "va", rollout |-> 8], [key |-> "va", rollout |-> 8]>>}

servicesVars == <<vars, resVars, flagVars, evalVars, continuityVars, bootVars,
                  fwdVars, impVars, throttleVars, part>>

WholeSource == [r \in Rows |-> TRUE]

ServicesInit ==
    /\ part \in Parts
    /\ Init /\ (part \notin {"members", "credentials"} => db = Blank)
    /\ ImpInit /\ (part # "import" => isource = WholeSource)
    /\ ResInit /\ FlagInit /\ EvalInit /\ ContinuityInit /\ BootInit
    /\ FwdInit /\ ThrottleInit

\* Accounts are explored with two invites, without personal keys and resets, and
\* with a key, a reset and one invite: commands on invites read neither of them.
ControlNext ==
    /\ \/ part = "members" /\ db'.keys = {} /\ db'.pw = db.pw
       \/ part = "credentials" /\ minted' <= 1
    /\ UNCHANGED <<resVars, flagVars, evalVars, continuityVars, bootVars,
                   fwdVars, impVars, throttleVars, part>>

ServicesNext ==
    \/ Next /\ ControlNext
    \/ /\ part = "resources" /\ ResNext
       /\ UNCHANGED <<vars, flagVars, evalVars, continuityVars, bootVars, fwdVars, impVars, throttleVars, part>>
    \/ /\ part = "flags" /\ FlagNext
       /\ UNCHANGED <<vars, resVars, evalVars, continuityVars, bootVars, fwdVars, impVars, throttleVars, part>>
    \/ /\ part = "evaluation" /\ EvalNext
       /\ UNCHANGED <<vars, resVars, flagVars, continuityVars, bootVars, fwdVars, impVars, throttleVars, part>>
    \/ /\ part = "continuity" /\ ContinuityNext
       /\ UNCHANGED <<vars, resVars, flagVars, evalVars, bootVars, fwdVars, impVars, throttleVars, part>>
    \/ /\ part = "bootstrap" /\ BootNext
       /\ UNCHANGED <<vars, resVars, flagVars, evalVars, continuityVars, fwdVars, impVars, throttleVars, part>>
    \/ /\ part = "forwarder" /\ FwdNext
       /\ UNCHANGED <<vars, resVars, flagVars, evalVars, continuityVars, bootVars, impVars, throttleVars, part>>
    \/ /\ part = "import" /\ ImpNext
       /\ UNCHANGED <<vars, resVars, flagVars, evalVars, continuityVars, bootVars, fwdVars, throttleVars, part>>
    \/ /\ part = "throttle" /\ ThrottleNext
       /\ UNCHANGED <<vars, resVars, flagVars, evalVars, continuityVars, bootVars, fwdVars, impVars, part>>

ServicesSpec == ServicesInit /\ [][ServicesNext]_servicesVars

\* The two members of each of these sets may change places.  One service runs at a
\* time, so sets of different services may change places together.
Turned(S, turn) == CHOOSE g \in Permutations(S) : \A x \in S : (g[x] # x) <=> turn
ServicesSymmetry ==
    {Turned(Users, a) @@ Turned(Projects, a) @@ Turned(FlagProjects, a) @@ Turned(FwdProjects, a)
        @@ Turned(Emails, a)
     @@ Turned(Orgs, b) @@ Turned(FlagKeys, b) @@ Turned(Sources, b)
     @@ Turned(Reqs, c) @@ Turned(FlagWriters, c) :
        a, b, c \in BOOLEAN}

-----------------------------------------------------------------------------
(* The other properties are those of the modules.                           *)

\* Variants share out the people as far as rounding lets them, and every wire format
\* gives the same answer (flags/eval.rs, routes/flags.rs).  Evaluated where flags change.
FlagAnswersHold == part = "evaluation" => VariantsPartition /\ WireAnswersAgree
=============================================================================
