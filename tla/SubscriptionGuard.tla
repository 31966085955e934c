------------------------- MODULE SubscriptionGuard -------------------------
(***************************************************************************)
(* The request budget of the public subscription URLs, as one client       *)
(* address meets it (ratelimit.rs SubscriptionLimiter, api                 *)
(* require_subscription_access).  A request reads the settings, then       *)
(* resolves its path to a user, then asks the limiter: settings and time   *)
(* move in between, and other requests come first.  Times are kept as ages *)
(* and remainders; time stands still within a critical section.            *)
(***************************************************************************)
EXTENDS Naturals

CONSTANTS
    GuardPaths,     \* the URLs in use: tokens and aliases
    Subscriber,     \* Subscriber[p]: the user behind the path
    GuardRequests,  \* requests in flight
    GuardConfigs,   \* settings: [enabled, max_requests, window, block]
    GuardDefault,   \* the settings when the database gives none
    MaxGuardFaults  \* bound on failing lookups

Configs == GuardConfigs \cup {GuardDefault}

\* subscription_guard_config clamps what it reads.
ASSUME GuardAssumption ==
    Configs \subseteq [enabled : BOOLEAN, max_requests : Nat \ {0}, window : Nat, block : Nat]

Subscribers == {Subscriber[p] : p \in GuardPaths}
Subjects == {"user", "invalid"} \X (Subscribers \cup GuardPaths)
Windows == {c.window : c \in Configs}

\* The clamp has an upper end too, so that one window is the longest.
ASSUME WindowAssumption == \E w \in Windows : \A v \in Windows : v <= w

\* An age that no window reaches.
Longest == 1 + CHOOSE w \in Windows : \A v \in Windows : v <= w

VARIABLES
    settings,  \* the settings in the database
    bucket,    \* subject -> [requests, age, blocked], or NoBucket
    ask,       \* request -> [pc, path, config, subject]
    told,      \* history: subject -> [said, left, block]: the ticks left of its last
               \* Retry-After and the length of the block behind it, or Unsaid
    guardFaults

guardVars == <<settings, bucket, ask, told, guardFaults>>

NoBucket == [requests |-> 0, age |-> Longest, blocked |-> 0]
NoAsk == [pc |-> "none"]
Unsaid == [said |-> FALSE, left |-> 0, block |-> 0]

GuardInit ==
    /\ settings \in GuardConfigs
    /\ bucket = [s \in Subjects |-> NoBucket]
    /\ ask = [r \in GuardRequests |-> NoAsk]
    /\ told = [s \in Subjects |-> Unsaid]
    /\ guardFaults = 0

\* The settings read, or the defaults if that failed.
require_subscription_access(r, p) ==
    /\ ask[r] = NoAsk
    /\ ask' = [ask EXCEPT ![r] = [pc |-> "subject", path |-> p, config |-> settings]]
    /\ UNCHANGED <<settings, bucket, told, guardFaults>>

subscription_guard_config(r, p) ==
    /\ ask[r] = NoAsk
    /\ guardFaults < MaxGuardFaults /\ guardFaults' = guardFaults + 1
    /\ ask' = [ask EXCEPT ![r] = [pc |-> "subject", path |-> p, config |-> GuardDefault]]
    /\ UNCHANGED <<settings, bucket, told>>

subscription_guard_subject(p) == <<"user", Subscriber[p]>>

ResolveSubject(r) ==
    /\ ask[r].pc = "subject"
    /\ \/ /\ ask' = [ask EXCEPT ![r] = [pc |-> "check", config |-> @.config, path |-> @.path,
                                        subject |-> subscription_guard_subject(@.path)]]
          /\ UNCHANGED guardFaults
       \/ \* the lookup fails: the path stands for itself
          /\ guardFaults < MaxGuardFaults /\ guardFaults' = guardFaults + 1
          /\ ask' = [ask EXCEPT ![r] = [pc |-> "check", config |-> @.config, path |-> @.path,
                                        subject |-> <<"invalid", @.path>>]]
    /\ UNCHANGED <<settings, bucket, told>>

\* entries.retain, under the settings of the request.
Retained(config) ==
    [s \in Subjects |-> IF bucket[s].blocked > 0 \/ bucket[s].age <= config.window
                        THEN bucket[s] ELSE NoBucket]

\* A new entry, or one whose window has elapsed.
Restarted(entry, config) ==
    IF entry.age > config.window THEN [requests |-> 0, age |-> 0, blocked |-> 0] ELSE entry

\* The entry after the request.
Counted(entry, config) ==
    IF entry.blocked > 0 THEN entry
    ELSE LET e == Restarted(entry, config)
             n == e.requests + 1
         IN [e EXCEPT !.requests = n, !.blocked = IF n > config.max_requests THEN config.block ELSE 0]

\* Mutant: whole seconds, rounded down.
retry_after_floor(entry) == entry.blocked

retry_after(entry) == entry.blocked + 1

Allow(r) ==
    \/ ~ask[r].config.enabled
    \/ Counted(Retained(ask[r].config)[ask[r].subject], ask[r].config).blocked = 0

\* A refusal within a block tells what is left of it.
Told(r, entry) ==
    LET s == ask[r].subject
        laid == IF bucket[s].blocked > 0 THEN told[s].block ELSE ask[r].config.block
    IN IF Allow(r) THEN Unsaid ELSE [said |-> TRUE, left |-> retry_after(entry), block |-> laid]

check(r) ==
    LET config == ask[r].config
        s == ask[r].subject
        entry == Counted(Retained(config)[s], config)
    IN /\ ask[r].pc = "check"
       /\ IF config.enabled
          THEN /\ bucket' = [Retained(config) EXCEPT ![s] = entry]
               /\ told' = [told EXCEPT ![s] = Told(r, entry)]
          ELSE UNCHANGED <<bucket, told>>
       /\ ask' = [ask EXCEPT ![r] = NoAsk]
       /\ UNCHANGED <<settings, guardFaults>>

\* One of the writes of update_settings; requests read what is there in between.
update_settings(c) ==
    /\ settings' = c
    /\ UNCHANGED <<bucket, ask, told, guardFaults>>

GuardTick ==
    /\ bucket' = [s \in Subjects |->
                    [bucket[s] EXCEPT !.age = IF @ < Longest THEN @ + 1 ELSE @,
                                      !.blocked = IF @ > 0 THEN @ - 1 ELSE 0]]
    /\ told' = [s \in Subjects |-> [told[s] EXCEPT !.left = IF @ > 0 THEN @ - 1 ELSE 0]]
    /\ UNCHANGED <<settings, ask, guardFaults>>

GuardNext ==
    \/ \E r \in GuardRequests, p \in GuardPaths :
         require_subscription_access(r, p) \/ subscription_guard_config(r, p)
    \/ \E r \in GuardRequests : ResolveSubject(r) \/ check(r)
    \/ \E c \in GuardConfigs : update_settings(c)
    \/ GuardTick

GuardSpec == GuardInit /\ [][GuardNext]_guardVars

\* A client that waits for the Retry-After it was told is served, whatever its
\* other requests did meanwhile and whatever settings they came under, unless
\* the window it is counted by now is longer than the block it waited for.
\* (A shorter block ends while the window still counts the refused requests,
\* and each return renews it.)
RetryAfterHolds ==
    [][\A r \in GuardRequests :
         LET promise == told[ask[r].subject]
         IN check(r) /\ promise.said /\ promise.left = 0
              /\ ask[r].config.window <= promise.block => Allow(r)]_guardVars
=============================================================================
