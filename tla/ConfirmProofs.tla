----------------------------- MODULE ConfirmProofs -----------------------------
(***************************************************************************)
(* Theorems about Confirm, for any number of handler threads, offers and   *)
(* prints and any time to live.                                            *)
(***************************************************************************)
EXTENDS Confirm, TLAPS

(* The inductive invariant.  The second part says what SingleUse rests on:    *)
(* a nonce taken by a thread is used up, is that thread's alone and has not   *)
(* made the printer act yet, and one not taken has not either.                *)
ClaimsAreExclusive ==
    /\ \A w \in Workers : Claimed(w) => /\ fate[claim[w]] = "used"
                                        /\ calls[claim[w]] = 0
    /\ \A v, w \in Workers :
          Claimed(v) /\ Claimed(w) /\ claim[v] = claim[w] => v = w
    /\ \A n \in Nonces : fate[n] # "used" => calls[n] = 0
    /\ SingleUse

IInv == TypeOK /\ StoreIsOpenOffers /\ ClaimsAreExclusive
--------------------------------------------------------------------------------
LEMMA InitInv == Init => IInv
  <1> SUFFICES ASSUME Init PROVE IInv
    OBVIOUS
  <1> USE ConstantsAssumption
  <1>1. TypeOK
    <2>1. offers \in [Nonces -> Offer]
      BY DEF Init, Offer, Channels, Actions
    <2>2. tokens \in [Channels \X Actions -> {None} \cup Nonces]
      BY DEF Init
    <2>3. /\ stage \in [Workers -> Stages] /\ action \in [Workers -> Actions]
          /\ claim \in [Workers -> {None} \cup Nonces]
          /\ \A w \in Workers : ~Claimed(w)
      BY DEF Init, Stages, Actions, Claimed
    <2>4. /\ fate \in [Nonces -> Fates] /\ calls \in [Nonces -> Nat]
          /\ \A n \in Nonces : fate[n] = "unmade" <=> n > made
      BY DEF Init, Fates, Nonces
    <2>5. pending \in BOOLEAN
      BY DEF Init
    <2>6. /\ now \in 0..MaxTime /\ phase \in Phases /\ job \in 0..MaxScope
          /\ scope \in 0..MaxScope /\ made \in 0..MaxOffers
      BY DEF Init, Phases
    <2> QED
      BY <2>1, <2>2, <2>3, <2>4, <2>5, <2>6 DEF TypeOK
  <1>2. StoreIsOpenOffers
    BY DEF Init, StoreIsOpenOffers
  <1>3. ClaimsAreExclusive
    BY DEF Init, ClaimsAreExclusive, Claimed, SingleUse
  <1> QED
    BY <1>1, <1>2, <1>3 DEF IInv

(* --- types --- *)

(* Taking a token out leaves the store and the history well typed. *)
LEMMA TakeOutType ==
    ASSUME TypeOK, NEW w \in Workers, NEW n \in 1..made,
           NEW why \in Fates \ {"unmade"}, TakeOut(w, n, why)
    PROVE  /\ tokens' \in [Channels \X Actions -> {None} \cup Nonces]
           /\ fate' \in [Nonces -> Fates]
           /\ \A m \in Nonces : fate'[m] = "unmade" <=> m > made
  <1> USE ConstantsAssumption
  <1>1. n \in Nonces /\ ~(n > made)
    BY DEF TypeOK, Nonces
  <1>2. <<ChannelOf(w), offers[n].action>> \in Channels \X Actions
    BY <1>1 DEF TypeOK, Offer, ChannelOf, Channels
  <1>3. tokens' \in [Channels \X Actions -> {None} \cup Nonces]
    BY <1>2 DEF TypeOK, TakeOut
  <1> QED
    BY <1>1, <1>3 DEF TypeOK, TakeOut

LEMMA NextTypeOK == TypeOK /\ StoreIsOpenOffers /\ [Next]_vars => TypeOK'
  <1> SUFFICES ASSUME TypeOK, StoreIsOpenOffers, [Next]_vars PROVE TypeOK'
    OBVIOUS
  <1> USE ConstantsAssumption DEF TypeOK, Claimed, printer, store, thread, None, Nonces
  <1>1. ASSUME NEW p \in Phases, StateChanges(p) PROVE TypeOK'
    <2>1. job' \in 0..MaxScope
      BY <1>1 DEF StateChanges
    <2>2. pending' = TRUE \/ pending' = pending
      BY <1>1 DEF StateChanges
    <2>3. /\ phase' = p
          /\ UNCHANGED <<now, scope, store, thread, calls>>
      BY <1>1 DEF StateChanges
    <2>4. pending' \in BOOLEAN
      BY <2>2
    <2> QED
      BY <2>1, <2>3, <2>4
  <1>2. CASE NewScope /\ job' = job /\ phase' = phase /\ pending' \in BOOLEAN
             /\ UNCHANGED <<now, thread, calls>>
    BY <1>2 DEF NewScope, Fates
  <1>3. ASSUME NEW w \in Workers, NEW command \in Actions, Press(w, command)
        PROVE  TypeOK'
    BY <1>3 DEF Press, Goes, Meant, Stages, Actions
  <1>4. ASSUME NEW w \in Workers, Issue(w) PROVE TypeOK'
    <2> DEFINE key == <<ChannelOf(w), action[w]>>
    <2>1. made + 1 \in Nonces /\ made' = made + 1 /\ made' \in 0..MaxOffers
      BY <1>4 DEF Issue, MakeOffer
    <2>2. offers' \in [Nonces -> Offer]
      BY <1>4, <2>1 DEF Issue, MakeOffer, Offer, Channels, ChannelOf
    <2>3. key \in Channels \X Actions
      BY DEF ChannelOf, Channels
    <2>4. tokens' = [tokens EXCEPT ![key] = made + 1]
      BY <1>4 DEF Issue
    <2>5. tokens' \in [Channels \X Actions -> {None} \cup Nonces]
      BY <2>1, <2>3, <2>4
    <2>6. fate' \in [Nonces -> Fates]
      BY <1>4, <2>1 DEF Issue, Fates
    <2>7. tokens[key] = None \/ tokens[key] \in Nonces
      BY <2>3
    <2>8. \A n \in Nonces : fate'[n] = "unmade" <=> n > made'
      BY <1>4, <2>1, <2>3, <2>7 DEF Issue, StoreIsOpenOffers
    <2>9. /\ stage' \in [Workers -> Stages] /\ action' \in [Workers -> Actions]
          /\ stage'[w] = "idle" /\ \A v \in Workers : v # w => stage'[v] = stage[v]
      BY <1>4 DEF Issue, MakeOffer, Goes, Stages, Actions
    <2>10. \A v \in Workers : Claimed(v)' => claim'[v] \in 1..made'
      BY <1>4, <2>1, <2>9 DEF Issue, MakeOffer
    <2>11. UNCHANGED <<now, printer, scope, claim, calls>>
      BY <1>4 DEF Issue, MakeOffer
    <2> QED
      BY <2>1, <2>2, <2>5, <2>6, <2>8, <2>9, <2>10, <2>11
  <1>5. ASSUME NEW w \in Workers, NEW n \in Nonces, Yes(w, n) PROVE TypeOK'
    <2>1. /\ n \in 1..made
          /\ UNCHANGED <<now, printer, scope, offers, made, action, calls>>
      BY <1>5 DEF Yes
    <2>2. \/ UNCHANGED <<tokens, fate>>
          \/ TakeOut(w, n, "expired") \/ TakeOut(w, n, "used")
      BY <1>5 DEF Yes
    <2>3. /\ tokens' \in [Channels \X Actions -> {None} \cup Nonces]
          /\ fate' \in [Nonces -> Fates]
          /\ \A m \in Nonces : fate'[m] = "unmade" <=> m > made
      BY <2>1, <2>2, TakeOutType DEF Fates
    <2>4. UNCHANGED <<stage, claim>> \/ Claim(w, n)
      BY <1>5 DEF Yes
    <2>5. /\ stage' \in [Workers -> Stages] /\ claim' \in [Workers -> {None} \cup Nonces]
          /\ \A v \in Workers : Claimed(v)' => claim'[v] \in 1..made
      BY <2>1, <2>4 DEF Claim, Goes, Stages
    <2> QED
      BY <2>1, <2>3, <2>5
  <1>6. ASSUME NEW w \in Workers, NEW n \in Nonces, No(w, n) PROVE TypeOK'
    <2>1. /\ n \in 1..made
          /\ UNCHANGED <<now, printer, scope, offers, made, thread, calls>>
          /\ UNCHANGED <<tokens, fate>> \/ TakeOut(w, n, "declined")
      BY <1>6 DEF No
    <2>2. /\ tokens' \in [Channels \X Actions -> {None} \cup Nonces]
          /\ fate' \in [Nonces -> Fates]
          /\ \A m \in Nonces : fate'[m] = "unmade" <=> m > made
      BY <2>1, TakeOutType DEF Fates
    <2> QED
      BY <2>1, <2>2
  <1>7. ASSUME NEW w \in Workers, Recheck(w) PROVE TypeOK'
    BY <1>7 DEF Recheck, Goes, Stages
  <1>8. ASSUME NEW w \in Workers, Call(w) PROVE TypeOK'
    BY <1>8 DEF Call, Goes, Stages
  <1>9. CASE Tick \/ UNCHANGED vars
    BY <1>9 DEF Tick, vars
  <1> QED
    BY <1>1, <1>2, <1>3, <1>4, <1>5, <1>6, <1>7, <1>8, <1>9
    DEF Next, NewPrint, CancelAll

(* --- the store and the offers --- *)

(* A token held is taken out, and its offer is no longer open. *)
LEMMA TakeOutKeepsStore ==
    ASSUME TypeOK, StoreIsOpenOffers, NEW w \in Workers, NEW n \in Nonces, Held(w, n),
           NEW why \in Fates \ {"open"}, TakeOut(w, n, why),
           UNCHANGED <<offers, scope, job, pending>>
    PROVE  StoreIsOpenOffers'
  <1> DEFINE key == <<ChannelOf(w), offers[n].action>>
  <1>1. key \in Channels \X Actions /\ tokens[key] = n /\ n # None
    BY ConstantsAssumption DEF TypeOK, Offer, ChannelOf, Channels, Held, Nonces, None
  <1>2. offers[n].channel = ChannelOf(w)
    BY <1>1 DEF StoreIsOpenOffers
  <1>3. /\ tokens' = [tokens EXCEPT ![key] = None]
        /\ fate' = [fate EXCEPT ![n] = why]
    BY DEF TakeOut
  <1>4. ASSUME NEW k \in Channels \X Actions, tokens'[k] # None
        PROVE  /\ fate'[tokens'[k]] = "open"
               /\ offers'[tokens'[k]].channel = k[1]
               /\ offers'[tokens'[k]].action = k[2]
    <2>1. k # key /\ tokens'[k] = tokens[k]
      BY <1>1, <1>3, <1>4 DEF TypeOK
    <2>2. /\ fate[tokens[k]] = "open" /\ offers[tokens[k]].channel = k[1]
          /\ offers[tokens[k]].action = k[2]
      BY <1>4, <2>1 DEF StoreIsOpenOffers
    <2>3. tokens[k] # n
      BY <1>2, <2>1, <2>2
    <2> QED
      BY <1>3, <2>1, <2>2, <2>3 DEF TypeOK
  <1>5. ASSUME NEW m \in Nonces, fate'[m] = "open"
        PROVE  /\ tokens'[<<offers'[m].channel, offers'[m].action>>] = m
               /\ offers'[m].scope = scope'
               /\ ~pending' => offers'[m].job = job'
    <2>1. m # n /\ fate[m] = "open"
      BY <1>3, <1>5 DEF TypeOK
    <2>2. /\ tokens[<<offers[m].channel, offers[m].action>>] = m
          /\ offers[m].scope = scope
          /\ ~pending => offers[m].job = job
      BY <2>1 DEF StoreIsOpenOffers
    <2>3. <<offers[m].channel, offers[m].action>> # key
      BY <1>1, <2>1, <2>2
    <2>4. <<offers[m].channel, offers[m].action>> \in Channels \X Actions
      BY DEF TypeOK, Offer
    <2> QED
      BY <1>3, <2>2, <2>3, <2>4 DEF TypeOK
  <1> QED
    BY <1>4, <1>5 DEF StoreIsOpenOffers

(* A new offer takes the place of the one its channel had for the action. *)
LEMMA IssueKeepsStore ==
    ASSUME TypeOK, StoreIsOpenOffers, NEW w \in Workers, Issue(w)
    PROVE  StoreIsOpenOffers'
  <1> DEFINE key == <<ChannelOf(w), action[w]>>
             new == made + 1
  <1>1. /\ key \in Channels \X Actions
        /\ new \in Nonces /\ new # None
    BY ConstantsAssumption DEF TypeOK, ChannelOf, Channels, Issue, MakeOffer, Nonces, None
  <1>2. /\ tokens' = [tokens EXCEPT ![key] = new]
        /\ fate' = [n \in Nonces |-> IF n = new THEN "open"
                                     ELSE IF n = tokens[key] THEN "superseded"
                                     ELSE fate[n]]
        /\ UNCHANGED <<scope, job, pending>>
    BY DEF Issue, MakeOffer, printer
  <1>3. /\ offers'[new].channel = ChannelOf(w) /\ offers'[new].action = action[w]
        /\ offers'[new].scope = scope /\ offers'[new].job = job
        /\ \A m \in Nonces : m # new => offers'[m] = offers[m]
    BY <1>1 DEF Issue, MakeOffer, TypeOK
  <1>4. fate[new] = "unmade"
    BY <1>1, ConstantsAssumption DEF TypeOK
  <1>5. ASSUME NEW k \in Channels \X Actions, tokens'[k] # None
        PROVE  /\ fate'[tokens'[k]] = "open"
               /\ offers'[tokens'[k]].channel = k[1]
               /\ offers'[tokens'[k]].action = k[2]
    <2>1. CASE k = key
      BY <1>1, <1>2, <1>3, <2>1 DEF TypeOK
    <2>2. CASE k # key
      <3>1. tokens'[k] = tokens[k] /\ tokens[k] \in Nonces
        BY <1>2, <1>5, <2>2 DEF TypeOK
      <3>2. /\ fate[tokens[k]] = "open" /\ offers[tokens[k]].channel = k[1]
            /\ offers[tokens[k]].action = k[2]
        BY <1>5, <3>1 DEF StoreIsOpenOffers
      <3>3. tokens[k] # new
        BY <1>4, <3>2
      <3>4. tokens[k] # tokens[key]
        <4>1. CASE tokens[key] = None
          BY <1>5, <3>1, <4>1
        <4>2. CASE tokens[key] # None
          <5>1. offers[tokens[key]].channel = key[1] /\ offers[tokens[key]].action = key[2]
            BY <1>1, <4>2 DEF StoreIsOpenOffers
          <5>2. k = <<k[1], k[2]>> /\ key = <<key[1], key[2]>>
            OBVIOUS
          <5> QED
            BY <2>2, <3>2, <5>1, <5>2
        <4> QED
          BY <4>1, <4>2
      <3> QED
        BY <1>2, <1>3, <3>1, <3>2, <3>3, <3>4
    <2> QED
      BY <2>1, <2>2
  <1>6. ASSUME NEW m \in Nonces, fate'[m] = "open"
        PROVE  /\ tokens'[<<offers'[m].channel, offers'[m].action>>] = m
               /\ offers'[m].scope = scope'
               /\ ~pending' => offers'[m].job = job'
    <2>1. CASE m = new
      BY <1>1, <1>2, <1>3, <2>1 DEF TypeOK
    <2>2. CASE m # new
      <3>1. m # tokens[key] /\ fate[m] = "open" /\ offers'[m] = offers[m]
        BY <1>2, <1>3, <1>6, <2>2
      <3>2. /\ tokens[<<offers[m].channel, offers[m].action>>] = m
            /\ offers[m].scope = scope
            /\ ~pending => offers[m].job = job
        BY <3>1 DEF StoreIsOpenOffers
      <3>3. <<offers[m].channel, offers[m].action>> # key
        BY <3>1, <3>2
      <3>4. <<offers[m].channel, offers[m].action>> \in Channels \X Actions
        BY DEF TypeOK, Offer
      <3> QED
        BY <1>2, <3>1, <3>2, <3>3, <3>4 DEF TypeOK
    <2> QED
      BY <2>1, <2>2
  <1> QED
    BY <1>5, <1>6 DEF StoreIsOpenOffers

(* A new scope leaves nothing held and nothing open. *)
LEMMA NewScopeKeepsStore ==
    ASSUME TypeOK, StoreIsOpenOffers, NewScope
    PROVE  StoreIsOpenOffers'
  <1>1. \A k \in Channels \X Actions : tokens'[k] = None
    BY DEF NewScope
  <1>2. \A n \in Nonces : fate'[n] # "open"
    BY DEF NewScope
  <1> QED
    BY <1>1, <1>2 DEF StoreIsOpenOffers

LEMMA NextStore == TypeOK /\ StoreIsOpenOffers /\ [Next]_vars => StoreIsOpenOffers'
  <1> SUFFICES ASSUME TypeOK, StoreIsOpenOffers, [Next]_vars
               PROVE  StoreIsOpenOffers'
    OBVIOUS
  <1>1. ASSUME NEW p \in Phases, StateChanges(p) PROVE StoreIsOpenOffers'
    <2>1. UNCHANGED <<scope, store>> /\ ~pending /\ (pending' \/ job' = job)
      BY <1>1 DEF StateChanges
    <2> QED
      BY <2>1 DEF StoreIsOpenOffers, store
  <1>2. ASSUME NEW w \in Workers, Issue(w) PROVE StoreIsOpenOffers'
    BY <1>2, IssueKeepsStore
  <1>3. ASSUME NEW w \in Workers, NEW n \in Nonces, Yes(w, n)
        PROVE  StoreIsOpenOffers'
    <2>1. UNCHANGED <<scope, offers, job, pending>>
      BY <1>3 DEF Yes, printer
    <2>2. CASE ~Live(w, n)
      BY <1>3, <2>1, <2>2 DEF Yes, StoreIsOpenOffers
    <2>3. CASE Live(w, n)
      <3>1. Held(w, n) /\ (TakeOut(w, n, "expired") \/ TakeOut(w, n, "used"))
        BY <1>3, <2>3 DEF Yes, Live
      <3> QED
        BY <2>1, <3>1, TakeOutKeepsStore DEF Fates
    <2> QED
      BY <2>2, <2>3
  <1>4. ASSUME NEW w \in Workers, NEW n \in Nonces, No(w, n)
        PROVE  StoreIsOpenOffers'
    <2>1. UNCHANGED <<scope, offers, job, pending>>
      BY <1>4 DEF No, printer
    <2>2. CASE Held(w, n)
      BY <1>4, <2>1, <2>2, TakeOutKeepsStore DEF No, Fates
    <2>3. CASE ~Held(w, n)
      BY <1>4, <2>1, <2>3 DEF No, StoreIsOpenOffers
    <2> QED
      BY <2>2, <2>3
  <1>5. CASE NewScope
    BY <1>5, NewScopeKeepsStore
  <1>6. CASE UNCHANGED <<scope, store, printer>>
    BY <1>6 DEF store, printer, StoreIsOpenOffers
  <1> QED
    BY <1>1, <1>2, <1>3, <1>4, <1>5, <1>6
    DEF Next, NewPrint, CancelAll, Press, Recheck, Call, Tick, vars, store, printer

(* --- claims --- *)

(* An offer whose token is held is open. *)
LEMMA HeldIsOpen ==
    ASSUME TypeOK, StoreIsOpenOffers, NEW w \in Workers, NEW n \in Nonces, Held(w, n)
    PROVE  fate[n] = "open" /\ offers[n].channel = ChannelOf(w)
  <1> DEFINE key == <<ChannelOf(w), offers[n].action>>
  <1>1. key \in Channels \X Actions /\ tokens[key] = n /\ n # None
    BY ConstantsAssumption DEF TypeOK, Offer, ChannelOf, Channels, Held, Nonces, None
  <1> QED
    BY <1>1 DEF StoreIsOpenOffers

(* While no thread moves past a claim, the exclusiveness of the claims rests  *)
(* on used nonces staying used and no other nonce becoming used.              *)
LEMMA ClaimsAreKept ==
    ASSUME TypeOK, ClaimsAreExclusive, UNCHANGED <<claim, calls>>,
           \A w \in Workers : Claimed(w)' => Claimed(w),
           \A n \in Nonces : fate'[n] = "used" <=> fate[n] = "used"
    PROVE  ClaimsAreExclusive'
  <1>1. \A w \in Workers : Claimed(w) => claim[w] \in Nonces
    BY ConstantsAssumption DEF TypeOK, Nonces
  <1> QED
    BY <1>1 DEF ClaimsAreExclusive, SingleUse

LEMMA NextClaims == IInv /\ [Next]_vars => ClaimsAreExclusive'
  <1> SUFFICES ASSUME TypeOK, StoreIsOpenOffers, ClaimsAreExclusive, [Next]_vars
               PROVE  ClaimsAreExclusive'
    BY DEF IInv
  <1>1. CASE UNCHANGED <<stage, claim, fate, calls>>
    BY <1>1, ClaimsAreKept DEF Claimed
  <1>2. ASSUME NEW w \in Workers, NEW command \in Actions, Press(w, command)
        PROVE  ClaimsAreExclusive'
    <2>1. UNCHANGED <<claim, calls, fate>>
      BY <1>2 DEF Press, store
    <2>2. \A v \in Workers : Claimed(v)' => Claimed(v)
      BY <1>2 DEF Press, Goes, Claimed, TypeOK
    <2> QED
      BY <2>1, <2>2, ClaimsAreKept
  <1>3. CASE NewScope /\ UNCHANGED <<thread, calls>>
    <2>1. \A n \in Nonces : fate'[n] = "used" <=> fate[n] = "used"
      BY <1>3 DEF NewScope
    <2> QED
      BY <1>3, <2>1, ClaimsAreKept DEF thread, Claimed
  <1>4. ASSUME NEW w \in Workers, Issue(w) PROVE ClaimsAreExclusive'
    <2> DEFINE key == <<ChannelOf(w), action[w]>>
    <2>1. key \in Channels \X Actions /\ made + 1 \in Nonces
      BY <1>4, ConstantsAssumption
      DEF TypeOK, ChannelOf, Channels, Issue, MakeOffer, Nonces
    <2>2. fate[made + 1] = "unmade"
      BY <2>1, ConstantsAssumption DEF TypeOK
    <2>3. tokens[key] \in Nonces => fate[tokens[key]] = "open"
      BY <2>1, ConstantsAssumption DEF StoreIsOpenOffers, Nonces, None
    <2>4. fate' = [n \in Nonces |-> IF n = made + 1 THEN "open"
                                    ELSE IF n = tokens[key] THEN "superseded"
                                    ELSE fate[n]]
      BY <1>4 DEF Issue
    <2>5. \A n \in Nonces : fate'[n] = "used" <=> fate[n] = "used"
      BY <2>2, <2>3, <2>4
    <2>6. UNCHANGED <<claim, calls>> /\ \A v \in Workers : Claimed(v)' => Claimed(v)
      BY <1>4 DEF Issue, MakeOffer, Goes, Claimed, TypeOK
    <2> QED
      BY <2>5, <2>6, ClaimsAreKept
  <1>5. ASSUME NEW w \in Workers, NEW n \in Nonces, NEW why \in {"expired", "declined"},
               Held(w, n), TakeOut(w, n, why), UNCHANGED <<thread, calls>>
        PROVE  ClaimsAreExclusive'
    <2>1. fate[n] = "open"
      BY <1>5, HeldIsOpen
    <2>2. \A m \in Nonces : fate'[m] = "used" <=> fate[m] = "used"
      BY <1>5, <2>1 DEF TakeOut, TypeOK
    <2> QED
      BY <1>5, <2>2, ClaimsAreKept DEF thread, Claimed
  <1>6. ASSUME NEW w \in Workers, NEW n \in Nonces, Held(w, n), stage[w] = "idle",
               TakeOut(w, n, "used"), Claim(w, n), calls' = calls
        PROVE  ClaimsAreExclusive'
    <2>1. fate[n] = "open" /\ calls[n] = 0
      BY <1>6, HeldIsOpen DEF ClaimsAreExclusive
    <2>2. /\ fate' = [fate EXCEPT ![n] = "used"]
          /\ claim' = [claim EXCEPT ![w] = n]
          /\ stage' = [stage EXCEPT ![w] = "claimed"]
      BY <1>6 DEF TakeOut, Claim, Goes
    <2>3. \A v \in Workers : Claimed(v) => claim[v] \in Nonces /\ claim[v] # n
      BY <2>1, ConstantsAssumption DEF ClaimsAreExclusive, TypeOK, Nonces
    <2>4. \A v \in Workers : /\ Claimed(v)' => v = w \/ Claimed(v)
                             /\ v # w => claim'[v] = claim[v]
                             /\ claim'[w] = n
      BY <2>2 DEF Claimed, TypeOK
    <2>5. \A v \in Workers : Claimed(v)' => fate'[claim'[v]] = "used" /\ calls'[claim'[v]] = 0
      BY <1>6, <2>1, <2>2, <2>3, <2>4 DEF ClaimsAreExclusive, TypeOK
    <2>6. \A u, v \in Workers :
             Claimed(u)' /\ Claimed(v)' /\ claim'[u] = claim'[v] => u = v
      BY <2>3, <2>4 DEF ClaimsAreExclusive
    <2>7. \A m \in Nonces : fate'[m] # "used" => calls'[m] = 0
      BY <1>6, <2>2 DEF ClaimsAreExclusive, TypeOK
    <2> QED
      BY <1>6, <2>5, <2>6, <2>7 DEF ClaimsAreExclusive, SingleUse
  <1>7. ASSUME NEW w \in Workers, Recheck(w) PROVE ClaimsAreExclusive'
    <2>1. UNCHANGED <<fate, calls>> /\ Claimed(w)
      BY <1>7 DEF Recheck, store, Claimed
    <2>2. \A v \in Workers : Claimed(v)' => Claimed(v) /\ claim'[v] = claim[v]
      BY <1>7, <2>1 DEF Recheck, Goes, Claimed, TypeOK
    <2> QED
      BY <2>1, <2>2 DEF ClaimsAreExclusive, SingleUse
  <1>8. ASSUME NEW w \in Workers, Call(w) PROVE ClaimsAreExclusive'
    <2>1. /\ Claimed(w) /\ claim[w] \in Nonces /\ fate' = fate
          /\ calls' = [calls EXCEPT ![claim[w]] = @ + 1]
      BY <1>8, ConstantsAssumption DEF Call, store, Claimed, TypeOK, Nonces
    <2>2. \A v \in Workers :
             Claimed(v)' => v # w /\ Claimed(v) /\ claim'[v] = claim[v]
      BY <1>8 DEF Call, Goes, Claimed, TypeOK
    <2>3. \A v \in Workers : Claimed(v)' => claim[v] # claim[w] /\ claim[v] \in Nonces
      BY <2>1, <2>2, ConstantsAssumption DEF ClaimsAreExclusive, TypeOK, Nonces
    <2>4. fate[claim[w]] = "used" /\ calls[claim[w]] = 0
      BY <2>1 DEF ClaimsAreExclusive
    <2>5. \A v \in Workers : Claimed(v)' => fate'[claim'[v]] = "used" /\ calls'[claim'[v]] = 0
      BY <2>1, <2>2, <2>3 DEF ClaimsAreExclusive, TypeOK
    <2>6. \A m \in Nonces : /\ fate'[m] # "used" => calls'[m] = 0
                            /\ calls'[m] <= 1
      BY <2>1, <2>4 DEF ClaimsAreExclusive, SingleUse, TypeOK
    <2> QED
      BY <2>2, <2>5, <2>6 DEF ClaimsAreExclusive, SingleUse
  <1>9. ASSUME NEW w \in Workers, NEW n \in Nonces, Yes(w, n) \/ No(w, n)
        PROVE  ClaimsAreExclusive'
    BY <1>1, <1>5, <1>6, <1>9 DEF Yes, No, Live, thread
  <1> QED
    BY <1>1, <1>2, <1>3, <1>4, <1>7, <1>8, <1>9
    DEF Next, NewPrint, CancelAll, StateChanges, Tick, vars, store, thread

LEMMA Invariance == Spec => []IInv
  <1>1. IInv /\ [Next]_vars => IInv'
    BY NextTypeOK, NextStore, NextClaims DEF IInv
  <1> QED
    BY InitInv, <1>1, PTL DEF Spec
--------------------------------------------------------------------------------
(* The variables keep their types, and a thread past its claim has a nonce    *)
(* that was made: _consume_confirm's claim (confirm.py) is never of an offer  *)
(* that _issue_confirm did not make.                                          *)
THEOREM TypeCorrect == Spec => []TypeOK
  BY Invariance, PTL DEF IInv

(* Confirming twice, on any number of handler threads, makes the printer act  *)
(* once: the check and the removal in _consume_confirm are one step.          *)
THEOREM ConfirmsOnce == Spec => []SingleUse
  BY Invariance, PTL DEF IInv, ClaimsAreExclusive

(* confirm_tokens holds the open offers and only them, whatever the other     *)
(* channel does, and none of an earlier print once new_print() has run.       *)
THEOREM StoreIsExact == Spec => []StoreIsOpenOffers
  BY Invariance, PTL DEF IInv

(* A Yes that _consume_confirm answers "ok" is for an offer of that channel,  *)
(* this scope and (after new_print()) this print, still open and in time.     *)
THEOREM ClaimsAreEntitled == Spec => ClaimIsEntitled
  <1> DEFINE Step ==
        \A w \in Workers :
          Claims(w) => LET offer == offers[claim'[w]]
                       IN  /\ fate[claim'[w]] = "open"
                           /\ offer.channel = ChannelOf(w)
                           /\ offer.scope = scope
                           /\ now <= offer.at + TTL
                           /\ ~pending => offer.job = job
  <1>1. ASSUME IInv, [Next]_vars PROVE [Step]_vars
    <2>1. ASSUME NEW w \in Workers, Claims(w)
          PROVE  \E n \in Nonces : /\ Live(w, n) /\ now - offers[n].at <= TTL
                                   /\ claim'[w] = n
      <3>1. stage \in [Workers -> Stages] /\ claim \in [Workers -> {None} \cup Nonces]
        BY <1>1 DEF IInv, TypeOK
      <3>2. stage[w] = "idle" /\ stage'[w] = "claimed"
        BY <2>1 DEF Claims
      <3>3. ASSUME NEW v \in Workers, NEW n \in Nonces, Yes(v, n)
            PROVE  /\ v = w /\ Live(w, n) /\ now - offers[n].at <= TTL
                   /\ claim'[w] = n
        BY <3>1, <3>2, <3>3 DEF Yes, Claim, Goes
      <3>4. ASSUME NEW v \in Workers,
                   \/ \E command \in Actions : Press(v, command)
                   \/ Issue(v) \/ Recheck(v) \/ Call(v)
            PROVE  FALSE
        BY <3>1, <3>2, <3>4 DEF Press, Issue, MakeOffer, Recheck, Call, Goes
      <3>5. ~UNCHANGED stage
        BY <3>2
      <3> QED
        BY <1>1, <3>3, <3>4, <3>5
        DEF Next, StateChanges, NewPrint, No, CancelAll, Tick, vars, thread
    <2>2. ASSUME NEW w \in Workers, NEW n \in Nonces, Live(w, n)
          PROVE  /\ fate[n] = "open" /\ offers[n].channel = ChannelOf(w)
                 /\ offers[n].scope = scope
                 /\ ~pending => offers[n].job = job
      BY <1>1, <2>2, HeldIsOpen DEF IInv, Live, StoreIsOpenOffers
    <2>3. \A n \in Nonces : now \in Int /\ offers[n].at \in Int /\ TTL \in Int
      BY <1>1, ConstantsAssumption DEF IInv, TypeOK, Offer
    <2> QED
      BY <2>1, <2>2, <2>3
  <1> QED
    BY <1>1, Invariance, PTL DEF Spec, ClaimIsEntitled
================================================================================
