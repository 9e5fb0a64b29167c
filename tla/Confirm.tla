-------------------------------- MODULE Confirm --------------------------------
(***************************************************************************)
(* confirm.py and the chat handlers of notify.py: pause, resume and stop   *)
(* from Telegram and Discord, each carried out only for a single-use nonce *)
(* confirmed in time and in the print it was offered in.                   *)
(*                                                                         *)
(* Telegram's library runs handlers on two threads, Discord has one        *)
(* command worker; a handler takes the lock for its part of the token      *)
(* store only, and reads the printer's state before or after.  Every       *)
(* button ever sent can be pressed at any time, again and again.           *)
(*                                                                         *)
(* Nonces are numbered in the order they are made (token_urlsafe(8) does   *)
(* not repeat).  "offers" is a history variable: what became of each one.  *)
(* Status, check, mute and the texts of the replies are left out.          *)
(***************************************************************************)
EXTENDS Integers, FiniteSets

CONSTANTS
    TelegramWorkers,   \* pyTelegramBotAPI's handler threads
    DiscordWorkers,    \* the command worker
    Pressed,           \* the buttons and commands that users press
    TTL,               \* CONFIRM_TTL
    MaxOffers,         \* bound: offers made
    MaxScope,          \* bound: prints, and cancel buttons that name no action
    MaxTime            \* bound: the clock stops here

ASSUME ConstantsAssumption ==
    /\ TelegramWorkers \cap DiscordWorkers = {}
    /\ Pressed \subseteq {"pause", "resume", "stop"}
    /\ TTL \in Nat /\ MaxOffers \in Nat /\ MaxScope \in Nat /\ MaxTime \in Nat

VARIABLES
    now,        \* time.monotonic()
    phase,      \* client.state, as get_state_id tells it
    job,        \* history: which print that is about
    pending,    \* whether on_state_change has still to be run for a new print
    scope,      \* confirm_scope
    tokens,     \* confirm_tokens: a nonce for each channel and action, or None
    offers,     \* history: for each nonce, when and for what it was made
    fate,       \* history: what became of each nonce
    made,       \* history: the last nonce made
    stage,      \* where each handler thread is
    action,     \* the action it is making an offer of
    claim,      \* the nonce it took
    calls       \* history: how often each nonce made the printer do something

vars == <<now, phase, job, pending, scope, tokens, offers, fate, made,
          stage, action, claim, calls>>
printer == <<phase, job, pending>>
store == <<tokens, offers, fate, made>>
thread == <<stage, action, claim>>

Workers == TelegramWorkers \cup DiscordWorkers
Channels == {"telegram", "discord"}
ChannelOf(w) == IF w \in TelegramWorkers THEN "telegram" ELSE "discord"
Actions == {"pause", "resume", "stop"}
Phases == {"idle", "printing", "paused"}
Nonces == 1..MaxOffers
None == 0
Fates == {"unmade", "open", "used", "declined", "superseded", "expired", "void"}
Offer == [channel : Channels, action : Actions, at : 0..MaxTime,
          scope : 0..MaxScope, job : 0..MaxScope]
Stages == {"idle", "offering", "claimed", "calling"}
--------------------------------------------------------------------------------
(* _action_state_problem(action) is None *)
Allowed(a) ==
    \/ a = "pause" /\ phase = "printing"
    \/ a = "resume" /\ phase = "paused"
    \/ a = "stop" /\ phase # "idle"

(* "pause" on a paused printer is an offer to resume. *)
Meant(command) ==
    IF command = "pause" /\ phase = "paused" THEN "resume" ELSE command

(* Telegram has no resume button; Discord's commands can be typed. *)
Commands(w) == Pressed \ (IF w \in TelegramWorkers THEN {"resume"} ELSE {})

Goes(w, s) == stage' = [stage EXCEPT ![w] = s]

Claimed(w) == stage[w] \in {"claimed", "calling"}

(* What _consume_confirm does with a token held.  The key is the presser's   *)
(* channel and the action on the button.                                     *)
Held(w, n) == tokens[<<ChannelOf(w), offers[n].action>>] = n
Live(w, n) == Held(w, n) /\ offers[n].scope = scope
--------------------------------------------------------------------------------
Init ==
    /\ now = 0
    /\ phase = "idle" /\ job = 0 /\ pending = FALSE
    /\ scope = 0
    /\ tokens = [k \in Channels \X Actions |-> None]
    /\ offers = [n \in Nonces |-> [channel |-> "discord", action |-> "stop", at |-> 0,
                                   scope |-> 0, job |-> 0]]
    /\ fate = [n \in Nonces |-> "unmade"] /\ made = 0
    /\ stage = [w \in Workers |-> "idle"]
    /\ action = [w \in Workers |-> "stop"] /\ claim = [w \in Workers |-> None]
    /\ calls = [n \in Nonces |-> 0]

(* --- the WebSocket thread --- *)

(* A status update sets client.state; for a new print, on_state_change comes *)
(* after it and calls new_print().                                           *)
StateChanges(p) ==
    /\ ~pending
    /\ p # phase
    /\ p = "paused" => phase = "printing"
    /\ phase' = p
    /\ IF p = "printing" /\ phase = "idle"
       THEN job < MaxScope /\ scope < MaxScope /\ job' = job + 1 /\ pending' = TRUE
       ELSE UNCHANGED <<job, pending>>
    /\ UNCHANGED <<now, scope, store, thread, calls>>

(* _new_confirm_scope *)
NewScope ==
    /\ scope < MaxScope
    /\ scope' = scope + 1
    /\ tokens' = [k \in Channels \X Actions |-> None]
    /\ fate' = [n \in Nonces |-> IF fate[n] = "open" THEN "void" ELSE fate[n]]
    /\ UNCHANGED <<offers, made>>

NewPrint ==
    /\ pending
    /\ pending' = FALSE
    /\ NewScope
    /\ UNCHANGED <<now, phase, job, thread, calls>>

(* --- the handlers --- *)

(* A Pause, Resume or Stop button or command: refused, or an offer follows. *)
Press(w, command) ==
    /\ stage[w] = "idle"
    /\ command \in Commands(w)
    /\ Allowed(Meant(command))
    /\ Goes(w, "offering")
    /\ action' = [action EXCEPT ![w] = Meant(command)]
    /\ UNCHANGED <<now, printer, scope, store, claim, calls>>

MakeOffer(w) ==
    /\ stage[w] = "offering"
    /\ made < MaxOffers
    /\ made' = made + 1
    /\ offers' = [offers EXCEPT ![made + 1] =
                     [channel |-> ChannelOf(w), action |-> action[w], at |-> now,
                      scope |-> scope, job |-> job]]
    /\ Goes(w, "idle")
    /\ action' = [action EXCEPT ![w] = "stop"]
    /\ UNCHANGED <<now, printer, scope, claim, calls>>

(* Mutant: the store is keyed by the action alone, as it once was: an offer   *)
(* on one channel evicts the other channel's.                                *)
IssueForAll(w) ==
    /\ MakeOffer(w)
    /\ fate' = [fate EXCEPT ![made + 1] = "open"]
    /\ tokens' = [k \in Channels \X Actions |->
                    IF k[2] = action[w] THEN made + 1 ELSE tokens[k]]

(* _issue_confirm replaces what its channel was offered for this action. *)
Issue(w) ==
    LET key == <<ChannelOf(w), action[w]>>
    IN  /\ MakeOffer(w)
        /\ fate' = [n \in Nonces |-> IF n = made + 1 THEN "open"
                                     ELSE IF n = tokens[key] THEN "superseded"
                                     ELSE fate[n]]
        /\ tokens' = [tokens EXCEPT ![key] = made + 1]

Claim(w, n) ==
    /\ Goes(w, "claimed")
    /\ claim' = [claim EXCEPT ![w] = n]

(* Takes a token out of the store. *)
TakeOut(w, n, why) ==
    /\ tokens' = [tokens EXCEPT ![<<ChannelOf(w), offers[n].action>>] = None]
    /\ fate' = [fate EXCEPT ![n] = why]

(* Mutant: the token is looked at under the lock and left there. *)
YesLeavingToken(w, n) ==
    /\ stage[w] = "idle" /\ n <= made
    /\ Live(w, n) /\ now - offers[n].at <= TTL
    /\ Claim(w, n)
    /\ UNCHANGED <<now, printer, scope, store, action, calls>>

(* Mutant: an answer's age is not looked at. *)
YesAnyAge(w, n) ==
    /\ stage[w] = "idle" /\ n <= made /\ Live(w, n)
    /\ TakeOut(w, n, "used") /\ Claim(w, n)
    /\ UNCHANGED <<now, printer, scope, offers, made, action, calls>>

(* A Yes button: _consume_confirm, in one critical section.  Stale, expired, *)
(* or good.                                                                  *)
Yes(w, n) ==
    /\ stage[w] = "idle" /\ n <= made
    /\ \/ /\ ~Live(w, n)
          /\ UNCHANGED <<tokens, fate, stage, claim>>
       \/ /\ Live(w, n) /\ now - offers[n].at > TTL
          /\ TakeOut(w, n, "expired")
          /\ UNCHANGED <<stage, claim>>
       \/ /\ Live(w, n) /\ now - offers[n].at <= TTL
          /\ TakeOut(w, n, "used")
          /\ Claim(w, n)
    /\ UNCHANGED <<now, printer, scope, offers, made, action, calls>>

(* The state is looked at again ... *)
Recheck(w) ==
    /\ stage[w] = "claimed"
    /\ IF Allowed(offers[claim[w]].action)
       THEN Goes(w, "calling") /\ UNCHANGED claim
       ELSE Goes(w, "idle") /\ claim' = [claim EXCEPT ![w] = None]
    /\ UNCHANGED <<now, printer, scope, store, action, calls>>

(* ... and Moonraker is asked. *)
Call(w) ==
    /\ stage[w] = "calling"
    /\ calls' = [calls EXCEPT ![claim[w]] = @ + 1]
    /\ Goes(w, "idle")
    /\ claim' = [claim EXCEPT ![w] = None]
    /\ UNCHANGED <<now, printer, scope, store, action>>

(* A No or Cancel button: _drop_confirm.  The button names its nonce; that of an *)
(* old message on Discord does not, and does what the No of the offer held would. *)
No(w, n) ==
    /\ stage[w] = "idle" /\ n <= made
    /\ IF Held(w, n)
       THEN TakeOut(w, n, "declined")
       ELSE UNCHANGED <<tokens, fate>>
    /\ UNCHANGED <<now, printer, scope, offers, made, thread, calls>>

(* A Cancel button on Discord that names no action withdraws everything. *)
CancelAll(w) ==
    /\ w \in DiscordWorkers /\ stage[w] = "idle"
    /\ NewScope
    /\ UNCHANGED <<now, printer, thread, calls>>

Tick ==
    /\ now < MaxTime
    /\ now' = now + 1
    /\ UNCHANGED <<printer, scope, store, thread, calls>>

Next ==
    \/ \E p \in Phases : StateChanges(p)
    \/ NewPrint
    \/ \E w \in Workers :
          \/ \E command \in Actions : Press(w, command)
          \/ Issue(w)
          \/ \E n \in Nonces : Yes(w, n) \/ No(w, n)
          \/ Recheck(w) \/ Call(w)
          \/ CancelAll(w)
    \/ Tick

Spec == Init /\ [][Next]_vars
--------------------------------------------------------------------------------
(* Types; a thread past its claim has a nonce that was made. *)
TypeOK ==
    /\ now \in 0..MaxTime
    /\ phase \in Phases /\ job \in 0..MaxScope /\ pending \in BOOLEAN
    /\ scope \in 0..MaxScope
    /\ tokens \in [Channels \X Actions -> {None} \cup Nonces]
    /\ offers \in [Nonces -> Offer] /\ fate \in [Nonces -> Fates]
    /\ made \in 0..MaxOffers
    /\ stage \in [Workers -> Stages] /\ action \in [Workers -> Actions]
    /\ claim \in [Workers -> {None} \cup Nonces]
    /\ calls \in [Nonces -> Nat]
    /\ \A w \in Workers : Claimed(w) => claim[w] \in 1..made
    /\ \A n \in Nonces : fate[n] = "unmade" <=> n > made

(* A confirmation makes the printer act at most once, however many times and *)
(* on however many threads its button is pressed.                            *)
SingleUse == \A n \in Nonces : calls[n] <= 1

(* The store holds exactly the open offers, each under its channel and       *)
(* action: until an offer is used, declined, replaced on its own channel or  *)
(* its print is over its button works (within its time), whatever happens on *)
(* the other channel; and nothing else is held.  An open offer is of this    *)
(* print, unless new_print() has still to come.                              *)
StoreIsOpenOffers ==
    /\ \A k \in Channels \X Actions :
          tokens[k] # None => /\ fate[tokens[k]] = "open"
                              /\ offers[tokens[k]].channel = k[1]
                              /\ offers[tokens[k]].action = k[2]
    /\ \A n \in Nonces :
          fate[n] = "open" =>
              /\ tokens[<<offers[n].channel, offers[n].action>>] = n
              /\ offers[n].scope = scope
              /\ ~pending => offers[n].job = job

(* A Yes is accepted only if its offer was made on that channel in this      *)
(* scope, was not used, declined or replaced, and its time is not over; and  *)
(* README.md: "is refused if the print ended while it was waiting", it was   *)
(* offered in the print now under way, unless it comes between the status    *)
(* update of a new print and its new_print().                                *)
Claims(w) == stage[w] = "idle" /\ stage'[w] = "claimed"

ClaimIsEntitled ==
    [][\A w \in Workers :
          Claims(w) => LET offer == offers[claim'[w]]
                       IN  /\ fate[claim'[w]] = "open"
                           /\ offer.channel = ChannelOf(w)
                           /\ offer.scope = scope
                           /\ now <= offer.at + TTL
                           /\ ~pending => offer.job = job]_vars
================================================================================
