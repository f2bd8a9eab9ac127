-------------------------------- MODULE Plic --------------------------------
(***************************************************************************)
(* The platform-level interrupt controller (riscv/plic.cc).  Devices drive *)
(* one line per interrupt id; each context (a privilege mode of a hart)    *)
(* enables ids, masks them by a threshold, claims the best one and         *)
(* completes it; the controller drives one mip bit (MEIP or SEIP) per      *)
(* context.  Register bit vectors are sets of ids.  A reset of a hart by   *)
(* the debugger recreates its mip, and the controller is not told.         *)
(***************************************************************************)
EXTENDS Integers, FiniteSets

CONSTANTS
    NumContexts,  \* contexts.size(), in the order of the vector
    NumDevices,   \* ndev: the ids are 1 .. ndev
    MaxPrio,      \* (1 << PLIC_PRIO_BITS) - 1
    Harts,        \* the contexts of each hart
    Routed,       \* TRUE when software enables an id in one context only
    Settled       \* TRUE when software changes no priority of a pending id

ASSUME PlicAssumption ==
    /\ NumContexts \in Nat \ {0}
    /\ NumDevices \in Nat \ {0}
    /\ MaxPrio \in Nat \ {0}
    /\ Harts \subseteq SUBSET (1 .. NumContexts)
    /\ Routed \in BOOLEAN
    /\ Settled \in BOOLEAN

VARIABLES
    priority,     \* priority[id], as last written
    level,        \* ids whose line is high
    contexts,     \* the plic_context_t of each context
    pin,          \* contexts whose mip bit is set
    undriven      \* contexts whose mip no one has driven since their hart's reset

plicVars == <<priority, level, contexts, pin, undriven>>

Contexts == 1 .. NumContexts
Ids == 1 .. NumDevices
Prios == 0 .. MaxPrio

\* plic_context_t; prio is pending_priority, the priority an id had when it
\* became pending.
Context == [enable : SUBSET Ids, pending : SUBSET Ids, claimed : SUBSET Ids,
            prio : [Ids -> Prios], threshold : Prios]

PlicTypeOK ==
    /\ priority \in [Ids -> Prios]
    /\ level \in SUBSET Ids
    /\ contexts \in [Contexts -> Context]
    /\ pin \in SUBSET Contexts
    /\ undriven \in SUBSET Contexts

PlicInit ==
    /\ priority = [id \in Ids |-> 0]
    /\ level = {}
    /\ contexts = [c \in Contexts |->
          [enable |-> {}, pending |-> {}, claimed |-> {},
           prio |-> [id \in Ids |-> 0], threshold |-> 0]]
    /\ pin = {}
    /\ undriven = {}

-----------------------------------------------------------------------------
\* Id i is reported before id j: the scan goes up the ids and replaces its
\* candidate only by one of a strictly higher priority.
Before(x, i, j) == x.prio[i] > x.prio[j] \/ (x.prio[i] = x.prio[j] /\ i =< j)

\* 0 when nothing unclaimed is pending above the threshold.
context_best_pending(x) ==
    LET candidates == x.pending \ x.claimed
        best == CHOOSE i \in candidates : \A j \in candidates : Before(x, i, j)
    IN  IF candidates = {} THEN 0
        ELSE IF x.prio[best] =< x.threshold THEN 0 ELSE best

\* The context record becomes x, and context_update drives its mip bit.
Update(c, x) ==
    /\ contexts' = [contexts EXCEPT ![c] = x]
    /\ pin' = IF context_best_pending(x) # 0 THEN pin \cup {c} ELSE pin \ {c}
    /\ undriven' = undriven \ {c}

Pended(x, ids) ==
    [x EXCEPT !.pending = @ \cup ids,
              !.prio = [i \in Ids |-> IF i \in ids THEN priority[i] ELSE @[i]]]

Dropped(x, ids) ==
    [x EXCEPT !.pending = @ \ ids,
              !.prio = [i \in Ids |-> IF i \in ids THEN 0 ELSE @[i]],
              !.claimed = @ \ ids]

\* priority_write: neither the contexts' copies nor the pins are refreshed.
priority_write(id, val) ==
    /\ Settled => \A c \in Contexts : id \notin contexts[c].pending
    /\ priority' = [priority EXCEPT ![id] = val]
    /\ UNCHANGED <<level, contexts, pin, undriven>>

\* context_enable_write: only the ids whose enable bit changes are touched.
context_enable_write(c, new) ==
    LET x == contexts[c]
    IN  /\ Routed => \A d \in Contexts \ {c} : contexts[d].enable \cap new = {}
        /\ Update(c, Dropped(Pended([x EXCEPT !.enable = new],
                                    (new \ x.enable) \cap level),
                             x.enable \ new))
        /\ UNCHANGED <<priority, level>>

\* context_write at CONTEXT_THRESHOLD.
threshold_write(c, val) ==
    /\ Update(c, [contexts[c] EXCEPT !.threshold = val])
    /\ UNCHANGED <<priority, level>>

\* A load of CONTEXT_CLAIM: the best pending id, if any, is in service.
context_claim(c) ==
    LET best == context_best_pending(contexts[c])
    IN  /\ Update(c, [contexts[c] EXCEPT !.claimed = @ \cup ({best} \ {0})])
        /\ UNCHANGED <<priority, level>>

\* A bug: completing does not drive the pin again.
complete_Silent(c, id) ==
    /\ id \in contexts[c].enable
    /\ contexts' = [contexts EXCEPT ![c].claimed = @ \ {id}]
    /\ UNCHANGED <<priority, level, pin, undriven>>

\* A store to CONTEXT_CLAIM completes an id, if it is enabled here.
complete(c, id) ==
    /\ id \in contexts[c].enable
    /\ Update(c, [contexts[c] EXCEPT !.claimed = @ \ {id}])
    /\ UNCHANGED <<priority, level>>

\* The contexts that enable id; the loop of set_interrupt_level stops at the
\* first.
Enabling(id) == {c \in Contexts : id \in contexts[c].enable}

set_interrupt_level(id, lvl) ==
    /\ level' = IF lvl THEN level \cup {id} ELSE level \ {id}
    /\ IF Enabling(id) = {}
         THEN UNCHANGED <<contexts, pin, undriven>>
         ELSE LET c == CHOOSE d \in Enabling(id) : \A e \in Enabling(id) : d =< e
              IN  Update(c, IF lvl THEN Pended(contexts[c], {id})
                                   ELSE Dropped(contexts[c], {id}))
    /\ UNCHANGED priority

\* processor_t::reset, by the debugger: the hart has a new mip, which is 0, and
\* the controller drives a bit of it again only when it next updates the context.
hart_reset(h) ==
    /\ pin' = pin \ h
    /\ undriven' = undriven \cup h
    /\ UNCHANGED <<priority, level, contexts>>

SoftwareNext ==
    \/ \E id \in Ids, val \in Prios : priority_write(id, val)
    \/ \E c \in Contexts, new \in SUBSET Ids : context_enable_write(c, new)
    \/ \E c \in Contexts, val \in Prios : threshold_write(c, val)
    \/ \E c \in Contexts : context_claim(c)
    \/ \E c \in Contexts, id \in Ids : complete(c, id)

-----------------------------------------------------------------------------
\* What is pending in a context is what it enables among the lines that are
\* high, and only such an id can be held as claimed.  Needed for the pins.
PendingFollowsLines ==
    \A c \in Contexts :
       /\ contexts[c].pending = contexts[c].enable \cap level
       /\ contexts[c].claimed \subseteq contexts[c].pending

\* A context deserves an interrupt: some line it enables is high, is not being
\* serviced, and has a priority above the threshold.
Deserves(c) ==
    LET x == contexts[c]
    IN  \E id \in (x.enable \cap level) \ x.claimed : priority[id] > x.threshold

\* No interrupt is made up, and none is lost but by a reset of the hart
\* (plic.cc:128-134 and every caller).  When software enables an id in one
\* context only and leaves the priority of a pending id alone, a mip bit is set
\* only if its context deserves an interrupt, and it is set whenever it does,
\* unless the hart was reset and the controller has not updated the context
\* since.  No id stays claimed once its line fell or it was disabled, which
\* would mask it for good.
PinsFollowLines ==
    Routed /\ Settled => \A c \in Contexts :
       /\ contexts[c].claimed \subseteq contexts[c].enable \cap level
       /\ c \in pin => Deserves(c)
       /\ Deserves(c) => c \in pin \cup undriven

\* "The PLIC will mask all PLIC interrupts of a priority less than or equal to
\* threshold" (plic.cc:117-118).
ThresholdMasks ==
    \A c \in pin : \E id \in contexts[c].pending \ contexts[c].claimed :
       priority[id] > contexts[c].threshold
=============================================================================
