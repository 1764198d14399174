------------------------------ MODULE Assistant ------------------------------
(***************************************************************************)
(* The AI assistant of the desktop application: the chains of requests and *)
(* commands the view starts (AiView.tsx: submit, continueConversation,     *)
(* runToolCalls, resolveBatch, breakChain) and the commands' second check  *)
(* in the backend (commands/ai.rs: ai_chat, ai_execute_command;            *)
(* command_classify.rs).                                                   *)
(*                                                                         *)
(* A chain is one activation of an asynchronous function; an action is     *)
(* what it does between two awaits.  A command that was sent is checked    *)
(* against the platform of the host's session, and run on the session the  *)
(* host has by then.  A command is the sequence of its segments, each with *)
(* the risk it has on either platform.                                     *)
(***************************************************************************)
EXTENDS Naturals, Sequences, FiniteSets, SequencesExt

CONSTANTS
    Targets,        \* the hosts that can be chosen
    Chains,         \* activations alive at the same time
    Replies,        \* the sequences of commands a reply may ask for
    MaxToolRounds,  \* MAX_TOOL_ROUNDS
    MaxSubmits,     \* messages the user sends
    MaxEvents       \* replies that ask for commands, and changes of target,
                    \* conversation, mode and session

NoHost == "local"   \* LOCAL_TARGET: no host is bound

VARIABLES
    target, token, mode, busy, resolving,   \* the view
    mounted,        \* the target when the view was mounted
    rounds,         \* the replies that asked for commands, with their cards
    chain,
    platform,       \* of the session each host has now, "gone" if it has none
    stored,         \* cards whose result is in the conversation's file
    ran,            \* commands that were run
    submits, changes

vars == <<target, token, mode, busy, resolving, mounted, rounds, chain, platform,
          stored, ran,
                      submits, changes>>

Modes == {"strict", "approval", "full"}
Platforms == {"unix", "windows"}
Gone == "gone"
Levels == <<"readOnly", "modify", "delete", "dangerous">>
Statuses == {"pending", "auto", "approved", "rejected", "blocked", "done", "error"}

Idle == [pc |-> "idle", token |-> 0, alias |-> NoHost, conv |-> NoHost, seen |-> Gone,
         mode |-> "approval", msg |-> 0, k |-> 0, left |-> <<>>, round |-> 0,
         batch |-> FALSE, pending |-> FALSE, got |-> {}, checked |-> "no"]

Full == Len(rounds) + changes >= MaxEvents

TypeOK ==
    /\ target \in Targets \union {NoHost}
    /\ mode \in Modes /\ busy \in BOOLEAN /\ resolving \in BOOLEAN
    /\ \A c \in Chains :
          /\ chain[c].pc \in {"idle", "conv", "chat", "timer", "auto", "batch"}
          /\ chain[c].round < MaxToolRounds
          /\ chain[c].batch => chain[c].pc \in {"batch", "chat"}
          /\ chain[c].checked \in {"no", "refused"} \union Platforms
          /\ chain[c].checked # "no" => chain[c].pc \in {"auto", "batch"}
    /\ \A m \in DOMAIN rounds : \A k \in DOMAIN rounds[m].cards :
          rounds[m].cards[k].status \in Statuses

Init ==
    /\ target \in Targets \union {NoHost} /\ mounted = target
    /\ token = 0 /\ mode = "approval" /\ busy = FALSE /\ resolving = FALSE
    /\ rounds = <<>>
    /\ chain = [c \in Chains |-> Idle]
    /\ platform = [h \in Targets |-> "unix"]
    /\ stored = {} /\ ran = {}
    /\ submits = 0 /\ changes = 0

-----------------------------------------------------------------------------
(* command_classify.rs *)
\* classify_command_for: the highest risk of the segments.
Level(command, p) ==
    LET rank(s) == CHOOSE i \in DOMAIN Levels : Levels[i] = s[p]
        highest == CHOOSE i \in DOMAIN command :
                      \A j \in DOMAIN command : rank(command[j]) <= rank(command[i])
    IN command[highest][p]

NeedsApproval(m, level) ==
    CASE level = "readOnly" -> m = "strict"
      [] level = "modify" -> m # "full"
      [] OTHER -> TRUE

\* The platform of the session, a Unix one when there is none.
Platform(h) == IF platform[h] = Gone THEN "unix" ELSE platform[h]

AllowsTrusting(command, h, m, approved) == Level(command, Platform(h)) # "dangerous"

\* ai_execute_command, up to execute_recorded: the level is taken again.
Allows(command, h, m, approved) ==
    LET level == Level(command, Platform(h))
    IN level # "dangerous" /\ (NeedsApproval(m, level) => approved)

-----------------------------------------------------------------------------
(* continueConversation *)
\* What resolveBatch does on every way out.
Released(batch) == /\ busy' = (busy /\ ~batch)
                   /\ resolving' = (resolving /\ ~batch)

\* ai_chat: only a host with a session has tools to offer.
SessionOf(h) == IF h = NoHost THEN Gone ELSE platform[h]

\* Up to the request to the provider.  The last round only leaves a note.
Continue(c, ch, alias, round) ==
    IF round >= MaxToolRounds
    THEN /\ chain' = [chain EXCEPT ![c] = Idle]
         /\ Released(ch.batch)
    ELSE /\ chain' = [chain EXCEPT ![c] = [Idle EXCEPT !.pc = "chat", !.token = token,
                         !.alias = alias, !.conv = ch.conv, !.seen = SessionOf(alias),
                         !.round = round, !.batch = ch.batch]]
         /\ busy' = TRUE
         /\ UNCHANGED resolving

\* The reply, or a failure, which is a reply without commands.  Without a session the
\* provider is offered no tool.
ChatReturns(c, commands) ==
    LET ch == chain[c]
        card(i) == [command |-> commands[i], level |-> Level(commands[i], ch.seen),
                    status |-> "pending", approved |-> FALSE]
    IN /\ ch.pc = "chat"
       /\ commands # <<>> => ch.seen # Gone /\ ~Full
       /\ IF ch.token # token \/ commands = <<>>
          THEN /\ chain' = [chain EXCEPT ![c] = Idle]
               /\ busy' = FALSE
               /\ resolving' = (resolving /\ ~ch.batch)
               /\ UNCHANGED rounds
          ELSE /\ rounds' = Append(rounds, [host |-> ch.alias, conv |-> ch.conv,
                                 round |-> ch.round, shown |-> TRUE,
                                 cards |-> [i \in DOMAIN commands |-> card(i)]])
               /\ chain' = [chain EXCEPT ![c] = [ch EXCEPT !.pc = "timer",
                                 !.msg = Len(rounds) + 1, !.batch = FALSE]]
               /\ Released(ch.batch)
       /\ UNCHANGED <<target, token, mode, mounted, platform, stored, ran,
                      submits, changes>>

-----------------------------------------------------------------------------
(* runToolCalls *)
SetStatus(cards, k, s) == [cards EXCEPT ![k].status = s]

Persisted(m, ks) == stored \union {<<m, k>> : k \in ks}

\* The loop over the cards from card k on, up to the next command that needs no
\* approval, or to the end of the round.
Loop(c, ch, cards, from) ==
    LET auto == {k \in from..Len(cards) : ~NeedsApproval(mode, cards[k].level)}
        stop == IF auto = {} THEN Len(cards) + 1
                ELSE CHOOSE k \in auto : \A j \in auto : k <= j
        passed == {k \in from..(stop - 1) : TRUE}
        blocked == {k \in passed : cards[k].level = "dangerous"}
        after == [k \in DOMAIN cards |->
                     [cards[k] EXCEPT !.status = IF k \in blocked THEN "blocked"
                                                 ELSE IF k \in passed THEN "pending"
                                                 ELSE IF k = stop THEN "auto" ELSE @]]
        pending == ch.pending \/ passed # blocked
        got == ch.got \union blocked
    IN /\ rounds' = [rounds EXCEPT ![ch.msg].cards = after]
       /\ IF stop <= Len(cards)
          THEN /\ chain' = [chain EXCEPT ![c] = [ch EXCEPT !.pc = "auto", !.k = stop,
                                !.mode = mode, !.pending = pending, !.got = got,
                                !.checked = "no"]]
               /\ UNCHANGED <<busy, resolving, stored>>
          ELSE /\ stored' = Persisted(ch.msg, got)
               /\ IF pending
                  THEN /\ chain' = [chain EXCEPT ![c] = Idle]
                       /\ UNCHANGED <<busy, resolving>>
                  ELSE Continue(c, ch, mounted, ch.round + 1)

Timer(c) ==
    /\ chain[c].pc = "timer"
    /\ Loop(c, chain[c], rounds[chain[c].msg].cards, 1)
    /\ UNCHANGED <<target, token, mode, mounted, platform, ran,
                      submits, changes>>

\* The card of the command a chain has sent.
Card(ch) == IF ch.pc = "auto" THEN ch.k ELSE ch.left[1]

\* The backend checks the command that was sent.
Check(c) ==
    LET ch == chain[c]
        r == rounds[ch.msg]
    IN /\ ch.pc \in {"auto", "batch"} /\ ch.checked = "no"
       /\ chain' = [chain EXCEPT ![c].checked =
                        IF Allows(r.cards[Card(ch)].command, r.host, ch.mode, ch.pc = "batch")
                        THEN Platform(r.host) ELSE "refused"]
       /\ UNCHANGED <<target, token, mode, busy, resolving, mounted, rounds, platform, stored,
                      ran, submits, changes>>

\* execute_recorded looks the session up anew; what was let through is run on that one.
Runs(ch) == ch.checked \in Platforms /\ platform[rounds[ch.msg].host] # Gone

\* The log of commands run, each with the level its card showed and the one the backend
\* took.
Ran(ch) ==
    LET r == rounds[ch.msg]
        card == r.cards[Card(ch)]
    IN IF ~Runs(ch) THEN ran
       ELSE ran \union {[msg |-> ch.msg, k |-> Card(ch), host |-> r.host, conv |-> r.conv,
                         mode |-> ch.mode, by |-> ch.pc, current |-> ch.token = token,
                         shown |-> card.level, level |-> Level(card.command, ch.checked),
                         clicked |-> card.approved]}

\* A command run without a question has returned: the backend ran it, refused it, or
\* it failed.  A chain that was broken meanwhile gives up the view's busy flag.
AutoReturns(c, ok) ==
    LET ch == chain[c]
        r == rounds[ch.msg]
    IN /\ ch.pc = "auto"
       /\ ch.checked # "no" /\ (ok => Runs(ch))
       /\ ran' = Ran(ch)
       /\ IF ch.token # token
          THEN /\ chain' = [chain EXCEPT ![c] = Idle]
               /\ busy' = FALSE
               /\ UNCHANGED <<rounds, resolving, stored>>
          ELSE Loop(c, [ch EXCEPT !.got = @ \union {ch.k}],
                    SetStatus(r.cards, ch.k, IF ok THEN "done" ELSE "error"), ch.k + 1)
       /\ UNCHANGED <<target, token, mode, mounted, platform, submits, changes>>

-----------------------------------------------------------------------------
(* resolveBatch *)
PendingIn(m) ==
    LET cards == rounds[m].cards
    IN SetToSeq({k \in DOMAIN cards : cards[k].status = "pending"})

Approve(c, m) ==
    LET ks == SortSeq(PendingIn(m), <)
    IN /\ chain[c].pc = "idle" /\ rounds[m].shown /\ ~resolving /\ ks # <<>>
       /\ resolving' = TRUE /\ busy' = TRUE
       /\ rounds' = [rounds EXCEPT ![m].cards = [k \in DOMAIN @ |->
                        [@[k] EXCEPT !.approved = @ \/ \E i \in DOMAIN ks : ks[i] = k,
                                     !.status = IF k = ks[1] THEN "approved" ELSE @]]]
       /\ chain' = [chain EXCEPT ![c] = [Idle EXCEPT !.pc = "batch", !.token = token,
                        !.alias = target, !.conv = rounds[m].conv, !.msg = m, !.left = ks,
                        !.mode = mode, !.round = rounds[m].round, !.batch = TRUE]]
       /\ UNCHANGED <<target, token, mode, mounted, platform, stored, ran,
                      submits, changes>>

Reject(c, m) ==
    LET ks == ToSet(PendingIn(m))
    IN /\ chain[c].pc = "idle" /\ rounds[m].shown /\ ~resolving /\ ks # {}
       /\ rounds' = [rounds EXCEPT ![m].cards = [k \in DOMAIN @ |->
                        [@[k] EXCEPT !.status = IF k \in ks THEN "rejected" ELSE @]]]
       /\ stored' = Persisted(m, ks)
       /\ IF rounds[m].round + 1 >= MaxToolRounds
          THEN /\ busy' = FALSE /\ UNCHANGED <<chain, resolving>>
          ELSE /\ resolving' = TRUE /\ busy' = TRUE
               /\ chain' = [chain EXCEPT ![c] = [Idle EXCEPT !.pc = "chat", !.token = token,
                               !.alias = target, !.conv = rounds[m].conv,
                               !.seen = SessionOf(target),
                               !.round = rounds[m].round + 1, !.batch = TRUE]]
       /\ UNCHANGED <<target, token, mode, mounted, platform, ran,
                      submits, changes>>

\* A command of the approved batch has returned.  The results that came before a
\* break are kept (persistPartial), the one that found the chain broken is not.
BatchReturns(c, ok) ==
    LET ch == chain[c]
        k == ch.left[1]
        r == rounds[ch.msg]
        cards == SetStatus(r.cards, k, IF ok THEN "done" ELSE "error")
        got == ch.got \union {k}
    IN /\ ch.pc = "batch"
       /\ ch.checked # "no" /\ (ok => Runs(ch))
       /\ ran' = Ran(ch)
       /\ IF ch.token # token
          THEN /\ stored' = Persisted(ch.msg, ch.got)
               /\ chain' = [chain EXCEPT ![c] = Idle]
               /\ busy' = FALSE /\ resolving' = FALSE
               /\ UNCHANGED rounds
          ELSE IF Len(ch.left) > 1
          THEN /\ rounds' = [rounds EXCEPT ![ch.msg].cards =
                                SetStatus(cards, ch.left[2], "approved")]
               /\ chain' = [chain EXCEPT ![c] = [ch EXCEPT !.left = Tail(@), !.mode = mode,
                                                  !.checked = "no", !.got = got]]
               /\ UNCHANGED <<busy, resolving, stored>>
          ELSE /\ rounds' = [rounds EXCEPT ![ch.msg].cards = cards]
               /\ stored' = Persisted(ch.msg, got)
               /\ Continue(c, ch, ch.alias, ch.round + 1)
       /\ UNCHANGED <<target, token, mode, mounted, platform, submits, changes>>

-----------------------------------------------------------------------------
(* The user *)
\* submit, up to the conversation the message is kept in.
Submit(c) ==
    /\ chain[c].pc = "idle" /\ ~busy /\ submits < MaxSubmits
    /\ chain' = [chain EXCEPT ![c] = [Idle EXCEPT !.pc = "conv", !.alias = target,
                                                  !.conv = target]]
    /\ submits' = submits + 1
    /\ UNCHANGED <<target, token, mode, busy, resolving, mounted, rounds, platform, stored,
                   ran, changes>>

Submitted(c) ==
    /\ chain[c].pc = "conv"
    /\ Continue(c, chain[c], chain[c].alias, 0)
    /\ UNCHANGED <<target, token, mode, mounted, rounds, platform, stored, ran,
                      submits, changes>>

\* breakChain, and the empty view after it.
BreakChain ==
    /\ token' = token + 1
    /\ busy' = FALSE /\ resolving' = FALSE
    /\ rounds' = [m \in DOMAIN rounds |-> [rounds[m] EXCEPT !.shown = FALSE]]
    /\ changes' = changes + 1
    /\ UNCHANGED <<mode, mounted, chain, platform, stored, ran, submits>>

SwitchTarget ==
    /\ ~Full
    /\ target' \in (Targets \union {NoHost}) \ {target}
    /\ BreakChain

StartNewConversation ==
    /\ ~Full /\ ~busy
    /\ BreakChain
    /\ UNCHANGED target

SetMode ==
    /\ ~Full
    /\ mode' \in Modes \ {mode}
    /\ changes' = changes + 1
    /\ UNCHANGED <<target, token, busy, resolving, mounted, rounds, chain, platform, stored,
                   ran, submits>>

\* The host's session ends, or is replaced by one whose platform is set otherwise.
Reconnect(h) ==
    /\ ~Full
    /\ \E p \in (Platforms \union {Gone}) \ {platform[h]} :
            platform' = [platform EXCEPT ![h] = p]
    /\ changes' = changes + 1
    /\ UNCHANGED <<target, token, mode, busy, resolving, mounted, rounds, chain, stored,
                   ran, submits>>

ChainStep(c) ==
    \/ Submitted(c) \/ Timer(c) \/ Check(c)
    \/ \E commands \in Replies : ChatReturns(c, commands)
    \/ \E ok \in BOOLEAN : AutoReturns(c, ok) \/ BatchReturns(c, ok)

Next ==
    \/ \E c \in Chains :
          \/ ChainStep(c) \/ Submit(c)
          \/ \E m \in DOMAIN rounds : Approve(c, m) \/ Reject(c, m)
    \/ SwitchTarget \/ StartNewConversation \/ SetMode
    \/ \E h \in Targets : Reconnect(h)

Spec == Init /\ [][Next]_vars

-----------------------------------------------------------------------------
(* However chains interleave, and whatever changes under them (the mode, the *)
(* host, its session), no command runs that the backend's check called       *)
(* dangerous, and one whose card the user did not click runs only if the     *)
(* mode it was sent with lets through both the level on the card, taken when *)
(* the reply came, and the level the backend took (runToolCalls,             *)
(* resolveBatch, ai_execute_command).                                        *)
Consent ==
    \A x \in ran :
        /\ x.level # "dangerous"
        /\ ~x.clicked => /\ ~NeedsApproval(x.mode, x.shown)
                         /\ ~NeedsApproval(x.mode, x.level)

(* Breaking a chain stops it: of the commands of a round, at most the one it *)
(* had under way or was just about to send still runs.                       *)
BreakStops ==
    \A x, y \in ran : ~x.current /\ ~y.current /\ x.msg = y.msg /\ x.by = y.by => x = y

(* An approved batch loses no result that arrived while its chain was        *)
(* current: when the chain has ended, each is in the conversation's file,    *)
(* also when the user broke the chain half way.                              *)
BatchRecorded ==
    \A x \in ran :
        /\ x.by = "batch" /\ x.current
        /\ \A c \in Chains : chain[c].pc = "batch" => chain[c].msg # x.msg
        => <<x.msg, x.k>> \in stored

(* A command runs on the host whose conversation asked for it.               *)
HostAsShown == \A x \in ran : x.host = x.conv
=============================================================================
