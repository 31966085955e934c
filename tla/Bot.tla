-------------------------------- MODULE Bot --------------------------------
(***************************************************************************)
(* The Telegram bot (telegram.rs).  Telegram keeps an update until a       *)
(* getUpdates asks for a later one; every instance has its own offset, in  *)
(* memory, and works through the batch it was given one update after the   *)
(* other.  is_leader is read before a poll and not again before the batch  *)
(* is done.  All commands are about one user, whom the panel edits too.    *)
(***************************************************************************)
EXTENDS Integers, Sequences

CONSTANTS
    BotHosts,       \* the masters that run the bot
    FirstHost,      \* the one of them that leads first
    Orders,         \* the commands sent: [cmd, gb, days]
    NoArg,          \* an argument that is missing or does not parse
    NoUser,         \* the user does not exist
    PollLimit,      \* updates in an answer of Telegram
    MaxUpdates,     \* bound on the updates sent
    MaxTroubles     \* bound on failures, restarts, changes of the leader and
                    \* edits by the panel, together

VARIABLES
    updates,     \* what was sent; an update's id is its place
    confirmed,   \* Telegram's first update that is not confirmed
    botLeader,   \* whose IS_LEADER is up
    bot,         \* host -> [pc, offset, at, last, id, found]
    allowed,     \* telegram_chats has the chat as admin
    client, rowid, \* the row, and the id of the row of this name
    audited,     \* the updates with an audit event
    handled,     \* history: the updates whose handling came to its end
    done,        \* history: the updates that changed the user
    stale,       \* history: those done before the panel's last edit
    base,        \* history: the user as that edit left it
    spoiled,     \* history: an update was repeated out of its turn
    botFaults, botTroubles

botBounds == <<botFaults, botTroubles>>
botVars == <<updates, confirmed, botLeader, bot, allowed, client, rowid, audited,
             handled, done, stale, base, spoiled, botBounds>>

\* An instance between two batches.
AtRest(offset) ==
    [pc |-> "rest", offset |-> offset, at |-> 0, last |-> 0, id |-> 0, found |-> NoUser]

\* The loop over a batch: the offset goes beyond an update before it is handled.
AtUpdate(k, last) ==
    [pc |-> "role", offset |-> k + 1, at |-> k, last |-> last, id |-> 0, found |-> NoUser]

Working == {"role", "find", "write", "audit", "reply"}

Larger(a, b) == IF a > b THEN a ELSE b
Smaller(a, b) == IF a < b THEN a ELSE b

BotInit ==
    /\ updates = <<>> /\ confirmed = 1
    /\ botLeader = FirstHost
    /\ bot = [i \in BotHosts |-> AtRest(0)]
    /\ allowed = TRUE
    /\ client \in {NoUser, [enabled |-> TRUE, limit |-> 0, expires |-> 0]}
    /\ rowid = 0 /\ base = client
    /\ audited = {} /\ handled = {} /\ done = {} /\ stale = {} /\ spoiled = FALSE
    /\ botFaults = 0 /\ botTroubles = 0

Spared == botFaults + botTroubles < MaxTroubles
BotFault == Spared /\ botFaults' = botFaults + 1
Trouble == Spared /\ botTroubles' = botTroubles + 1 /\ UNCHANGED botFaults

\* Somebody writes to the bot.
Tell(c) ==
    /\ Len(updates) < MaxUpdates
    /\ updates' = Append(updates, c)
    /\ UNCHANGED <<confirmed, botLeader, bot, allowed, client, rowid, audited,
                   handled, done, stale, base, spoiled, botBounds>>

\* The flag moves to another instance (HaLease).
Takeover(i) ==
    /\ botLeader # i
    /\ Trouble
    /\ botLeader' = i
    /\ UNCHANGED <<updates, confirmed, bot, allowed, client, rowid, audited,
                   handled, done, stale, base, spoiled>>

\* The instance restarts: its offset is forgotten.
BotCrash(i) ==
    /\ bot[i] # AtRest(0)
    /\ Trouble
    /\ bot' = [bot EXCEPT ![i] = AtRest(0)]
    /\ UNCHANGED <<updates, confirmed, botLeader, allowed, client, rowid, audited,
                   handled, done, stale, base, spoiled>>

\* run: the leader polls, for up to a minute.
run(i) ==
    /\ bot[i].pc = "rest" /\ botLeader = i
    /\ bot' = [bot EXCEPT ![i].pc = "poll"]
    /\ UNCHANGED <<updates, confirmed, botLeader, allowed, client, rowid, audited,
                   handled, done, stale, base, spoiled, botBounds>>

\* The batch of an answer, which may be empty.
Received(b, from) ==
    IF from > Len(updates) THEN AtRest(b.offset)
    ELSE AtUpdate(from, Smaller(Len(updates), from + PollLimit - 1))

\* The request fails or is refused, before it reached Telegram or after.
PollFails(i, from) ==
    /\ BotFault
    /\ confirmed' \in {confirmed, from}
    /\ bot' = [bot EXCEPT ![i].pc = "rest"]
    /\ UNCHANGED spoiled

\* Updates are delivered again that another instance, still running, went through.
Overlap(i, from) ==
    from <= Len(updates) /\ \E j \in BotHosts \ {i} : bot[j].offset > from

\* Mutant: the batch is acknowledged as it arrives.
get_updates_acked(i) ==
    LET from == Larger(confirmed, bot[i].offset)
    IN /\ bot[i].pc = "poll"
       /\ \/ /\ bot' = [bot EXCEPT ![i] = Received(@, from)]
             /\ confirmed' = Larger(from, Received(bot[i], from).last + 1)
             /\ spoiled' = (spoiled \/ Overlap(i, from))
             /\ UNCHANGED botFaults
          \/ PollFails(i, from)
       /\ UNCHANGED <<updates, botLeader, allowed, client, rowid, audited, handled,
                      done, stale, base, botTroubles>>

\* Telegram's answer: what is before the offset is confirmed and not sent again.
get_updates(i) ==
    LET from == Larger(confirmed, bot[i].offset)
    IN /\ bot[i].pc = "poll"
       /\ \/ /\ bot' = [bot EXCEPT ![i] = Received(@, from)]
             /\ confirmed' = from
             /\ spoiled' = (spoiled \/ Overlap(i, from))
             /\ UNCHANGED botFaults
          \/ PollFails(i, from)
       /\ UNCHANGED <<updates, botLeader, allowed, client, rowid, audited, handled,
                      done, stale, base, botTroubles>>

Order(i) == updates[bot[i].at]
BotAt(i, l) == bot' = [bot EXCEPT ![i].pc = l]

\* Handling an update that had an effect, without one this time.
NoEffect(k) == spoiled' = (spoiled \/ k \in done)

\* The end of an update, and the loop's next one.
NextUpdate(i) ==
    /\ handled' = handled \union {bot[i].at}
    /\ bot' = [bot EXCEPT ![i] = IF bot[i].at < bot[i].last
                                 THEN AtUpdate(bot[i].at + 1, bot[i].last)
                                 ELSE AtRest(bot[i].offset)]

\* An update without a message or a text is passed over.
NoText(i) ==
    /\ bot[i].pc = "role" /\ Order(i).cmd = "none"
    /\ NextUpdate(i)
    /\ UNCHANGED <<updates, confirmed, botLeader, allowed, client, rowid, audited,
                   done, stale, base, spoiled, botBounds>>

\* help_text, sub_reply, status_reply, nodes_reply, find_reply: they only read.
reads_reply(i) ==
    /\ bot[i].pc = "role" /\ Order(i).cmd = "read"
    /\ BotAt(i, "reply")
    /\ UNCHANGED <<updates, confirmed, botLeader, allowed, client, rowid, audited,
                   handled, done, stale, base, spoiled, botBounds>>

Mutations == {"/adduser", "/setquota", "/setexpiry", "/enable", "/disable"}

\* The usage lines: an argument that the command cannot do without.
Usage(c) ==
    \/ c.cmd = "/setquota" /\ c.gb = NoArg
    \/ c.cmd = "/setexpiry" /\ c.days = NoArg

\* handle, for a mutation: an error of the database is "not an admin".
handle(i) ==
    LET c == Order(i)
        Goes == IF c.cmd = "/adduser" THEN "write" ELSE "find"
    IN /\ bot[i].pc = "role" /\ c.cmd \in Mutations
       /\ \/ /\ allowed /\ ~Usage(c)
             /\ BotAt(i, Goes)
             /\ UNCHANGED <<spoiled, botFaults>>
          \/ /\ ~allowed \/ Usage(c)
             /\ BotAt(i, "reply") /\ NoEffect(bot[i].at)
             /\ UNCHANGED botFaults
          \/ /\ allowed /\ BotFault
             /\ BotAt(i, "reply") /\ NoEffect(bot[i].at)
       /\ UNCHANGED <<updates, confirmed, botLeader, allowed, client, rowid, audited,
                      handled, done, stale, base, botTroubles>>

\* get_user_by_name.
get_user_by_name(i) ==
    /\ bot[i].pc = "find"
    /\ \/ /\ client # NoUser
          /\ bot' = [bot EXCEPT ![i] =
                        [pc |-> "write", offset |-> bot[i].offset, at |-> bot[i].at,
                         last |-> bot[i].last, id |-> rowid, found |-> client]]
          /\ UNCHANGED <<spoiled, botFaults>>
       \/ /\ client = NoUser
          /\ BotAt(i, "reply") /\ NoEffect(bot[i].at)
          /\ UNCHANGED botFaults
       \/ BotFault /\ BotAt(i, "reply") /\ NoEffect(bot[i].at)
    /\ UNCHANGED <<updates, confirmed, botLeader, allowed, client, rowid, audited,
                   handled, done, stale, base, botTroubles>>
\* An amount of gigabytes or of days; 0 is no limit.
Amount(x) == IF x = NoArg \/ x < 0 THEN 0 ELSE x

\* add_user_reply's row.
NewRow(c) == [enabled |-> TRUE, limit |-> Amount(c.gb), expires |-> Amount(c.days)]

\* The one field that a command names (blank_update leaves out the others).
Patched(c, u) ==
    CASE c.cmd = "/setquota"  -> [u EXCEPT !.limit = Amount(c.gb)]
      [] c.cmd = "/setexpiry" -> [u EXCEPT !.expires = Amount(c.days)]
      [] c.cmd = "/enable"    -> [u EXCEPT !.enabled = TRUE]
      [] c.cmd = "/disable"   -> [u EXCEPT !.enabled = FALSE]

\* A repetition that undoes an edit of the panel or a later command.
OutOfTurn(k) == k \in stale \/ (k \notin done /\ \E l \in done : l > k)

\* The statement took effect; the answer to it may be lost all the same.
Effected(i) ==
    /\ done' = done \union {bot[i].at}
    /\ spoiled' = (spoiled \/ OutOfTurn(bot[i].at))
    /\ \/ BotAt(i, "audit") /\ UNCHANGED botFaults
       \/ BotAt(i, "reply") /\ BotFault

\* The statement fails.
Refused(i) ==
    /\ BotFault /\ BotAt(i, "reply") /\ NoEffect(bot[i].at)
    /\ UNCHANGED <<client, rowid, done>>

\* add_user_reply: create_user's transaction; the name is unique.
add_user_reply(i) ==
    /\ bot[i].pc = "write" /\ Order(i).cmd = "/adduser"
    /\ \/ /\ client = NoUser
          /\ client' = NewRow(Order(i)) /\ rowid' = rowid + 1
          /\ Effected(i)
       \/ /\ client # NoUser
          /\ BotAt(i, "reply")
          /\ UNCHANGED <<client, rowid, done, spoiled, botFaults>>
       \/ Refused(i)
    /\ UNCHANGED <<updates, confirmed, botLeader, allowed, audited, handled,
                   stale, base, botTroubles>>

\* Mutant: the row is written back as it was found.
update_reply_whole(i) ==
    /\ bot[i].pc = "write" /\ Order(i).cmd # "/adduser"
    /\ \/ /\ client # NoUser /\ bot[i].id = rowid
          /\ client' = Patched(Order(i), bot[i].found) /\ UNCHANGED rowid
          /\ Effected(i)
       \/ /\ client = NoUser \/ bot[i].id # rowid
          /\ BotAt(i, "reply") /\ NoEffect(bot[i].at)
          /\ UNCHANGED <<client, rowid, done, botFaults>>
       \/ Refused(i)
    /\ UNCHANGED <<updates, confirmed, botLeader, allowed, audited, handled,
                   stale, base, botTroubles>>

\* set_quota_reply, set_expiry_reply, toggle_reply: update_user of the id found.
update_reply(i) ==
    /\ bot[i].pc = "write" /\ Order(i).cmd # "/adduser"
    /\ \/ /\ client # NoUser /\ bot[i].id = rowid
          /\ client' = Patched(Order(i), client) /\ UNCHANGED rowid
          /\ Effected(i)
       \/ /\ client = NoUser \/ bot[i].id # rowid
          /\ BotAt(i, "reply") /\ NoEffect(bot[i].at)
          /\ UNCHANGED <<client, rowid, done, botFaults>>
       \/ Refused(i)
    /\ UNCHANGED <<updates, confirmed, botLeader, allowed, audited, handled,
                   stale, base, botTroubles>>

\* audit_bot: a failure is dropped.
audit_bot(i) ==
    /\ bot[i].pc = "audit"
    /\ \/ audited' = audited \union {bot[i].at} /\ UNCHANGED botFaults
       \/ BotFault /\ UNCHANGED audited
    /\ BotAt(i, "reply")
    /\ UNCHANGED <<updates, confirmed, botLeader, allowed, client, rowid, handled,
                   done, stale, base, spoiled, botTroubles>>

\* send_message, whose failure is only logged, and the loop.
send_message(i) ==
    /\ bot[i].pc = "reply"
    /\ NextUpdate(i)
    /\ UNCHANGED <<updates, confirmed, botLeader, allowed, client, rowid, audited,
                   done, stale, base, spoiled, botBounds>>

\* The panel switches the user or deletes the row.
PanelEdit ==
    /\ Trouble /\ client # NoUser
    /\ client' \in {NoUser, [client EXCEPT !.enabled = ~@]}
    /\ base' = client'
    /\ stale' = stale \union done /\ done' = {}
    /\ UNCHANGED <<updates, confirmed, botLeader, bot, allowed, rowid, audited,
                   handled, spoiled>>

\* The chat as admin, and not: with the role user, or without its row.
add_tg_chat ==
    /\ Trouble /\ allowed' \in BOOLEAN
    /\ UNCHANGED <<updates, confirmed, botLeader, bot, client, rowid, audited, handled,
                   done, stale, base, spoiled>>

delete_tg_chat ==
    /\ Trouble /\ allowed' = FALSE
    /\ UNCHANGED <<updates, confirmed, botLeader, bot, client, rowid, audited, handled,
                   done, stale, base, spoiled>>

BotStep(i) ==
    \/ run(i) \/ get_updates(i) \/ NoText(i) \/ reads_reply(i) \/ handle(i)
    \/ get_user_by_name(i) \/ add_user_reply(i) \/ update_reply(i) \/ audit_bot(i)
    \/ send_message(i)

BotNext ==
    \/ \E c \in Orders : Tell(c)
    \/ \E i \in BotHosts : BotStep(i) \/ Takeover(i) \/ BotCrash(i)
    \/ PanelEdit \/ add_tg_chat \/ delete_tg_chat

BotSpec == BotInit /\ [][BotNext]_botVars

-----------------------------------------------------------------------------

\* Whatever crashes and takeovers do to the offsets in memory, Telegram drops
\* no update before some instance came to the end of it: it answered, or
\* passed over one without text (run advances its offset before the handler
\* runs, and sends the offset only after the batch).
ConfirmedIsAnswered == \A k \in 1 .. confirmed - 1 : k \in handled

\* The user as the panel left it, with the commands that took effect since, each once.
AsCommanded ==
    LET after[k \in 0 .. Len(updates)] ==
            IF k = 0 THEN base
            ELSE IF k \notin done THEN after[k - 1]
            ELSE IF updates[k].cmd = "/adduser" THEN NewRow(updates[k])
            ELSE Patched(updates[k], after[k - 1])
    IN after[Len(updates)]

BotSettled ==
    /\ \A i \in BotHosts : bot[i].pc \notin Working
    /\ \A k \in done : k < confirmed

\* Telegram delivers again what a crash left unconfirmed, and the bot does it
\* again.  When all is confirmed the user is nevertheless what the panel left
\* and every command, once and in the order sent, made of it, and the commands
\* on an existing user are audited; unless an instance that did them is still
\* running, or a repetition undid an edit of the panel, failed, or came to an
\* effect it did not have before (blank_update: a command writes one field).
RedeliveryIsHarmless ==
    BotSettled /\ ~spoiled =>
        /\ client = AsCommanded
        /\ botFaults = 0 => \A k \in done : updates[k].cmd = "/adduser" \/ k \in audited
=============================================================================
