---------------------------- MODULE MyDhcp_proofs ----------------------------
(***************************************************************************)
(* The composition, for any number of clients and addresses, any ttl, any  *)
(* timeouts, and any delays, losses and duplicates: an address that is     *)
(* used is leased, no two clients use one address, and the server still    *)
(* implements AddressLease.                                                *)
(***************************************************************************)
EXTENDS MyDhcp, FiniteSets, TLAPS

(***************************************************************************)
(* The two programs, with what is proved of them.  They may receive any    *)
(* message.                                                                *)
(***************************************************************************)
P == INSTANCE MyDhcpServer_proofs WITH
        Endpoint <- Client, Nobody <- Server, Datagram <- Message
Q == INSTANCE MyDhcpClient_proofs WITH Datagram <- Message

(***************************************************************************)
(* Time, in seconds.                                                       *)
(***************************************************************************)
\* Alarms that may be left when a pass ends: it consumes one.
Left == S!Decremented(MaxAlarm)

\* From the answer of the server to the moment in which a client begins to use it.
Delay == MaxAge + 1 + Left

(***************************************************************************)
(* The datagrams N of a client that are in flight, by what they are.       *)
(***************************************************************************)
Discovers(N) == {d \in N : d.up /\ d.msg.type = "DISCOVER"}
Requests(N) == {d \in N : d.up /\ d.msg.type = "REQUEST"}
Releases(N) == {d \in N : d.up /\ d.msg.type = "RELEASE"}
Offers(N) == {d \in N : ~ d.up /\ d.msg.type = "OFFER" /\ d.msg.code = "OK"}
Acks(N) == {d \in N : ~ d.up /\ d.msg.type = "ACK" /\ d.msg.code = "OK"}
Naming(N) == Requests(N) \cup Offers(N) \cup Acks(N)

(***************************************************************************)
(* What a client and the server agree on: the client's process p, its      *)
(* record r at the server and its datagrams N, for the ttl m of the        *)
(* configuration.  In life seconds the server ends the record if it is in  *)
(* use, in wait seconds if it is offered and nothing arrives for it; in    *)
(* use seconds the client ends if it uses its address.                     *)
(***************************************************************************)
Early(p) == p.stat \in {"init", "wait_offer1", "wait_offer2"}
InUse(p) == p.pc = "recv" /\ p.stat \in {"in_use", "wait_ext_ack"}
Offered(r) == r.stat \in {"wait_req1", "wait_req2"}

\* Before it has an OFFER a client asks for nothing and has nothing.
Order(r, p, N) ==
    /\ Releases(N) = {}
    /\ Early(p) => Requests(N) = {} /\ Acks(N) = {} /\ r.stat # "in_use"

\* There is one address between a client and its record.
OneAddr(r, p, N) == r.stat # "none" =>
    /\ \A d \in Naming(N) : d.msg.ipaddr = r.addr
    /\ ~ Early(p) => p.addr = r.addr

\* What is left of an exchange cannot lead to a second record whose address is
\* offered to a client that has one.
Single(r, p, N) == r.stat = "none" =>
    IF Early(p) THEN Offers(N) = {} ELSE Discovers(N) = {}

\* The lease an ACK grants runs, and began when the ACK was sent.
AckTime(m, r, life, N) == \A d \in Acks(N) :
    r.stat = "in_use" /\ life + d.age + Left + 1 >= m

\* A record lasts until the DISCOVERs of its client are gone, and until the
\* OFFERs it sent are gone.
DiscoverTime(m, r, life, wait, p, N) == \A d \in Discovers(N) :
    /\ r.stat = "in_use" => life + d.age + Left + 1 >= m
    /\ ~ Early(p) /\ Offered(r) => wait + d.age + MaxAge + MaxAlarm + 1 >= MessageTimeout

OfferTime(r, wait, N) == \A d \in Offers(N) :
    Offered(r) => wait + d.age + MaxAlarm + 1 >= MessageTimeout

\* An address in use is leased, for as long as the client will use it.
UseTime(r, life, p, use) ==
    InUse(p) /\ use > Delay => r.stat = "in_use" /\ life + Delay >= use

Agree(m, r, life, wait, p, use, N) ==
    /\ Order(r, p, N)
    /\ OneAddr(r, p, N)
    /\ Len(Config) > 1 => Single(r, p, N)
    /\ AckTime(m, r, life, N)
    /\ DiscoverTime(m, r, life, wait, p, N)
    /\ OfferTime(r, wait, N)
    /\ UseTime(r, life, p, use)

Aged(N) == \A d \in N : d.age \in 0 .. MaxAge

LEMMA Constants ==
    /\ Left \in Int /\ 0 <= Left /\ Left <= MaxAlarm
    /\ Delay \in Int /\ Delay = MaxAge + 1 + Left
    /\ MaxAge \in Int /\ 0 <= MaxAge /\ MaxAlarm \in Int /\ 0 <= MaxAlarm
    /\ MessageTimeout \in Int /\ 0 <= MessageTimeout
    /\ Len(Config) \in Int
BY MaxAgeAssumption, MaxAlarmAssumption, MessageTimeoutAssumption, ConfigAssumption
   DEF Left, Delay, S!Decremented

\* Nothing that says anything is in M and not in N.
NoNews(N, M) ==
    /\ Discovers(M) \subseteq Discovers(N) /\ Requests(M) \subseteq Requests(N)
    /\ Releases(M) \subseteq Releases(N) /\ Offers(M) \subseteq Offers(N)
    /\ Acks(M) \subseteq Acks(N)

LEMMA Subset ==
    ASSUME NEW N, NEW M, M \subseteq N
    PROVE  NoNews(N, M)
BY DEF NoNews, Discovers, Requests, Releases, Offers, Acks

LEMMA Ages ==
    ASSUME NEW N, Aged(N)
    PROVE  /\ \A d \in Discovers(N) : d.age \in Int /\ 0 <= d.age /\ d.age <= MaxAge
           /\ \A d \in Offers(N) : d.age \in Int /\ 0 <= d.age /\ d.age <= MaxAge
           /\ \A d \in Acks(N) : d.age \in Int /\ 0 <= d.age /\ d.age <= MaxAge
BY Constants DEF Aged, Discovers, Offers, Acks

(***************************************************************************)
(* Steps of the server.                                                    *)
(***************************************************************************)
\* The record is kept and its time does not get shorter; datagrams may get lost.
LEMMA KeptAgrees ==
    ASSUME NEW m \in Int, NEW r, NEW life \in Int, NEW wait \in Int, NEW p,
           NEW use \in Int, NEW N, Agree(m, r, life, wait, p, use, N), Aged(N),
           NEW s, NEW slife \in Int, NEW swait \in Int, NEW M,
           s.stat = r.stat, s.addr = r.addr,
           r.stat = "in_use" => slife >= life,
           Offered(r) => swait >= wait,
           NoNews(N, M)
    PROVE  Agree(m, s, slife, swait, p, use, M)
<1>1. Naming(M) \subseteq Naming(N)
  BY DEF NoNews, Naming
<1>2. Order(s, p, M) /\ OneAddr(s, p, M) /\ (Len(Config) > 1 => Single(s, p, M))
  BY <1>1 DEF Agree, NoNews, Order, OneAddr, Single
<1>3. AckTime(m, s, slife, M)
  <2> SUFFICES ASSUME NEW d \in Acks(M)
               PROVE  s.stat = "in_use" /\ slife + d.age + Left + 1 >= m
    BY DEF AckTime
  <2>1. r.stat = "in_use" /\ life + d.age + Left + 1 >= m /\ d.age \in Int
    BY Ages DEF Agree, AckTime, NoNews
  <2> QED  BY <2>1, Constants
<1>4. DiscoverTime(m, s, slife, swait, p, M)
  <2> SUFFICES ASSUME NEW d \in Discovers(M)
               PROVE  /\ s.stat = "in_use" => slife + d.age + Left + 1 >= m
                      /\ ~ Early(p) /\ Offered(s) =>
                            swait + d.age + MaxAge + MaxAlarm + 1 >= MessageTimeout
    BY DEF DiscoverTime
  <2>1. /\ d.age \in Int
        /\ r.stat = "in_use" => life + d.age + Left + 1 >= m
        /\ ~ Early(p) /\ Offered(r) =>
              wait + d.age + MaxAge + MaxAlarm + 1 >= MessageTimeout
    BY Ages DEF Agree, DiscoverTime, NoNews
  <2>2. ASSUME s.stat = "in_use" PROVE slife + d.age + Left + 1 >= m
    BY <2>1, <2>2, Constants
  <2>3. ASSUME ~ Early(p), Offered(s)
        PROVE  swait + d.age + MaxAge + MaxAlarm + 1 >= MessageTimeout
    <3>1. Offered(r)
      BY <2>3 DEF Offered
    <3>2. wait + d.age + MaxAge + MaxAlarm + 1 >= MessageTimeout
      BY <2>1, <2>3, <3>1
    <3> QED  BY <2>1, <3>1, <3>2, Constants
  <2> QED  BY <2>2, <2>3
<1>5. OfferTime(s, swait, M)
  <2> SUFFICES ASSUME NEW d \in Offers(M), Offered(s)
               PROVE  swait + d.age + MaxAlarm + 1 >= MessageTimeout
    BY DEF OfferTime
  <2>1. Offered(r)
    BY DEF Offered
  <2>2. d.age \in Int /\ wait + d.age + MaxAlarm + 1 >= MessageTimeout
    BY <2>1, Ages DEF Agree, OfferTime, NoNews
  <2> QED  BY <2>1, <2>2, Constants
<1>6. UseTime(s, slife, p, use)
  BY Constants DEF Agree, UseTime
<1> QED  BY <1>2, <1>3, <1>4, <1>5, <1>6 DEF Agree

\* A request is granted: the lease starts anew.
LEMMA LeasedAgrees ==
    ASSUME NEW m \in Int, NEW r, NEW life \in Int, NEW wait \in Int, NEW p,
           NEW use \in Int, NEW N, Agree(m, r, life, wait, p, use, N), Aged(N),
           NEW s, NEW slife \in Int, NEW swait \in Int, NEW M, NEW a,
           r.stat # "none", ~ Early(p), use <= m,
           s.stat = "in_use", s.addr = r.addr, slife + Left + 1 >= m,
           Aged(M), NoNews(N, M \ {a}), a.msg.ipaddr = r.addr, ~ a.up, a.msg.type = "ACK"
    PROVE  Agree(m, s, slife, swait, p, use, M)
<1>1. /\ Discovers(M) \subseteq Discovers(N) /\ Requests(M) \subseteq Requests(N)
      /\ Releases(M) \subseteq Releases(N) /\ Offers(M) \subseteq Offers(N)
      /\ Acks(M) \subseteq Acks(N) \cup {a}
  BY DEF NoNews, Discovers, Requests, Releases, Offers, Acks
<1>2. Order(s, p, M)
  BY <1>1 DEF Agree, Order
<1>3. OneAddr(s, p, M)
  BY <1>1 DEF Agree, OneAddr, Naming
<1>4. Single(s, p, M) /\ OfferTime(s, swait, M)
  BY DEF Single, OfferTime, Offered
<1>5. AckTime(m, s, slife, M)
  <2> SUFFICES ASSUME NEW d \in Acks(M) PROVE slife + d.age + Left + 1 >= m
    BY DEF AckTime
  <2>1. d.age \in Int /\ 0 <= d.age
    BY Ages
  <2> QED  BY <2>1, Constants
<1>6. DiscoverTime(m, s, slife, swait, p, M)
  <2> SUFFICES ASSUME NEW d \in Discovers(M) PROVE slife + d.age + Left + 1 >= m
    BY DEF DiscoverTime, Offered
  <2>1. d.age \in Int /\ 0 <= d.age
    BY Ages
  <2> QED  BY <2>1, Constants
<1>7. UseTime(s, slife, p, use)
  BY Constants DEF UseTime
<1> QED  BY <1>2, <1>3, <1>4, <1>5, <1>6, <1>7 DEF Agree

\* The address a client without a record can be offered: any of several, for no
\* client that has one will hear of it, or the only one there is.
Offerable(a, p, N) ==
    \/ Len(Config) > 1
    \/ (\A d \in Naming(N) : d.msg.ipaddr = a) /\ (~ Early(p) => p.addr = a)

\* A client without a record is offered such an address.
LEMMA CreatedAgrees ==
    ASSUME NEW m \in Int, NEW r, NEW life \in Int, NEW wait \in Int, NEW p,
           NEW use \in Int, NEW N, Agree(m, r, life, wait, p, use, N), Aged(N),
           NEW s, NEW slife \in Int, NEW swait \in Int, NEW M, NEW o,
           r.stat = "none", Discovers(N) # {},
           s.stat = "wait_req1", swait + MaxAlarm + 1 >= MessageTimeout,
           Offerable(s.addr, p, N),
           Aged(M), NoNews(N, M \ {o}), o.msg.ipaddr = s.addr, ~ o.up, o.msg.type = "OFFER"
    PROVE  Agree(m, s, slife, swait, p, use, M)
<1>1. /\ Discovers(M) \subseteq Discovers(N) /\ Requests(M) \subseteq Requests(N)
      /\ Releases(M) \subseteq Releases(N) /\ Offers(M) \subseteq Offers(N) \cup {o}
      /\ Acks(M) \subseteq Acks(N)
  BY DEF NoNews, Discovers, Requests, Releases, Offers, Acks
<1>2. Order(s, p, M)
  BY <1>1 DEF Agree, Order
<1>3. OneAddr(s, p, M)
  <2>1. CASE Len(Config) > 1
    <3>1. Early(p) /\ Offers(N) = {}
      BY <2>1 DEF Agree, Single
    <3>2. Requests(N) = {} /\ Acks(N) = {}
      BY <3>1 DEF Agree, Order
    <3> QED  BY <1>1, <3>1, <3>2 DEF OneAddr, Naming
  <2>2. CASE /\ \A d \in Naming(N) : d.msg.ipaddr = s.addr
             /\ ~ Early(p) => p.addr = s.addr
    BY <1>1, <2>2 DEF OneAddr, Naming
  <2> QED  BY <2>1, <2>2 DEF Offerable
<1>4. Single(s, p, M)
  BY DEF Single
<1>5. AckTime(m, s, slife, M)
  BY <1>1 DEF Agree, AckTime
<1>6. DiscoverTime(m, s, slife, swait, p, M)
  <2> SUFFICES ASSUME NEW d \in Discovers(M)
               PROVE  swait + d.age + MaxAge + MaxAlarm + 1 >= MessageTimeout
    BY DEF DiscoverTime
  <2>1. d.age \in Int /\ 0 <= d.age
    BY Ages
  <2>2. 0 <= MaxAge
    BY Constants
  <2> QED  BY <2>1, <2>2, Constants
<1>7. OfferTime(s, swait, M)
  <2> SUFFICES ASSUME NEW d \in Offers(M)
               PROVE  swait + d.age + MaxAlarm + 1 >= MessageTimeout
    BY DEF OfferTime
  <2>1. d.age \in Int /\ 0 <= d.age
    BY Ages
  <2> QED  BY <2>1, Constants
<1>8. UseTime(s, slife, p, use)
  BY DEF Agree, UseTime
<1> QED  BY <1>2, <1>3, <1>4, <1>5, <1>6, <1>7, <1>8 DEF Agree

\* resend_offer: the OFFER is repeated.
LEMMA ResentAgrees ==
    ASSUME NEW m \in Int, NEW r, NEW life \in Int, NEW wait \in Int, NEW p,
           NEW use \in Int, NEW N, Agree(m, r, life, wait, p, use, N), Aged(N),
           NEW s, NEW slife \in Int, NEW M, NEW o,
           r.stat = "wait_req1", s.stat = "wait_req2", s.addr = r.addr,
           wait + MaxAlarm + 1 >= MessageTimeout,
           Aged(M), NoNews(N, M \ {o}), o.msg.ipaddr = r.addr, ~ o.up, o.msg.type = "OFFER"
    PROVE  Agree(m, s, slife, wait, p, use, M)
<1>1. /\ Discovers(M) \subseteq Discovers(N) /\ Requests(M) \subseteq Requests(N)
      /\ Releases(M) \subseteq Releases(N) /\ Offers(M) \subseteq Offers(N) \cup {o}
      /\ Acks(M) \subseteq Acks(N)
  BY DEF NoNews, Discovers, Requests, Releases, Offers, Acks
<1>2. Order(s, p, M)
  BY <1>1 DEF Agree, Order
<1>3. OneAddr(s, p, M)
  BY <1>1 DEF Agree, OneAddr, Naming
<1>4. Single(s, p, M)
  BY DEF Single
<1>5. AckTime(m, s, slife, M)
  BY <1>1 DEF Agree, AckTime
<1>6. DiscoverTime(m, s, slife, wait, p, M)
  BY <1>1 DEF Agree, DiscoverTime, Offered
<1>7. OfferTime(s, wait, M)
  <2> SUFFICES ASSUME NEW d \in Offers(M)
               PROVE  wait + d.age + MaxAlarm + 1 >= MessageTimeout
    BY DEF OfferTime
  <2>1. d.age \in Int /\ 0 <= d.age
    BY Ages
  <2> QED  BY <2>1, Constants
<1>8. UseTime(s, slife, p, use)
  BY DEF Agree, UseTime
<1> QED  BY <1>2, <1>3, <1>4, <1>5, <1>6, <1>7, <1>8 DEF Agree

\* The end of a lease: nothing is left of the exchange, and nobody uses the address.
LEMMA LeaseOverAgrees ==
    ASSUME NEW m \in Int, m > Delay, NEW r, NEW life \in Int, NEW wait \in Int, NEW p,
           NEW use \in Int, NEW N, Agree(m, r, life, wait, p, use, N), Aged(N),
           NEW s, NEW slife \in Int, NEW swait \in Int, NEW M,
           r.stat = "in_use", life <= 0, s.stat = "none", NoNews(N, M)
    PROVE  Agree(m, s, slife, swait, p, use, M)
<1>1. ~ Early(p) /\ Releases(N) = {}
  BY DEF Agree, Order
<1>2. Acks(N) = {}
  <2> SUFFICES ASSUME NEW d \in Acks(N) PROVE FALSE
    OBVIOUS
  <2>1. life + d.age + Left + 1 >= m /\ d.age \in Int /\ d.age <= MaxAge
    BY Ages DEF Agree, AckTime
  <2> QED  BY <2>1, Constants
<1>3. Discovers(N) = {}
  <2> SUFFICES ASSUME NEW d \in Discovers(N) PROVE FALSE
    OBVIOUS
  <2>1. life + d.age + Left + 1 >= m /\ d.age \in Int /\ d.age <= MaxAge
    BY Ages DEF Agree, DiscoverTime
  <2> QED  BY <2>1, Constants
<1>4. ~ (InUse(p) /\ use > Delay)
  BY Constants DEF Agree, UseTime
<1>5. Discovers(M) = {} /\ Acks(M) = {} /\ Releases(M) = {}
  BY <1>1, <1>2, <1>3 DEF NoNews
<1> QED  BY <1>1, <1>4, <1>5
         DEF Agree, Order, OneAddr, Single, AckTime, DiscoverTime, OfferTime, Offered, UseTime

\* The end of an offer: if Punctual, nothing is left of the exchange.
LEMMA OfferOverAgrees ==
    ASSUME Punctual,
           NEW m \in Int, NEW r, NEW life \in Int, NEW wait \in Int, NEW p,
           NEW use \in Int, NEW N, Agree(m, r, life, wait, p, use, N), Aged(N),
           NEW s, NEW slife \in Int, NEW swait \in Int, NEW M,
           Offered(r), wait <= 0, s.stat = "none", NoNews(N, M)
    PROVE  Agree(m, s, slife, swait, p, use, M)
<1>1. r.stat # "in_use" /\ Acks(N) = {}
  BY DEF Agree, AckTime, Offered
<1>2. Order(s, p, M) /\ Acks(M) = {}
  BY <1>1 DEF Agree, Order, NoNews
<1>3. ASSUME Len(Config) > 1 PROVE Single(s, p, M)
  <2>1. MessageTimeout > 2 * MaxAge + MaxAlarm + 1
    BY <1>3, Constants DEF Punctual
  <2>2. CASE Early(p)
    <3> SUFFICES ASSUME NEW d \in Offers(N) PROVE FALSE
      BY <2>2 DEF NoNews, Single
    <3>1. wait + d.age + MaxAlarm + 1 >= MessageTimeout
      BY DEF Agree, OfferTime
    <3>2. d.age \in Int /\ d.age <= MaxAge /\ 0 <= MaxAge
      BY Ages, Constants
    <3> QED  BY <2>1, <3>1, <3>2, Constants
  <2>3. CASE ~ Early(p)
    <3> SUFFICES ASSUME NEW d \in Discovers(N) PROVE FALSE
      BY <2>3 DEF NoNews, Single
    <3>1. wait + d.age + MaxAge + MaxAlarm + 1 >= MessageTimeout
      BY <2>3 DEF Agree, DiscoverTime
    <3>2. d.age \in Int /\ d.age <= MaxAge
      BY Ages
    <3> QED  BY <2>1, <3>1, <3>2, Constants
  <2> QED  BY <2>2, <2>3
<1>4. UseTime(s, slife, p, use)
  BY <1>1 DEF Agree, UseTime
<1> QED  BY <1>2, <1>3, <1>4
         DEF Agree, OneAddr, AckTime, DiscoverTime, OfferTime, Offered

(***************************************************************************)
(* Steps of the client.                                                    *)
(***************************************************************************)
\* A client that has no OFFER yet: it may send a DISCOVER, d.
LEMMA EarlyAgrees ==
    ASSUME NEW m \in Int, NEW r, NEW life \in Int, NEW wait \in Int, NEW p,
           NEW use \in Int, NEW N, Agree(m, r, life, wait, p, use, N),
           NEW q, NEW quse, NEW M, NEW d,
           Early(p), Early(q), NoNews(N, M \ {d}), d.up, d.msg.type = "DISCOVER"
    PROVE  Agree(m, r, life, wait, q, quse, M)
<1>1. /\ Requests(M) \subseteq Requests(N) /\ Releases(M) \subseteq Releases(N)
      /\ Offers(M) \subseteq Offers(N) /\ Acks(M) \subseteq Acks(N)
  BY DEF NoNews, Requests, Releases, Offers, Acks
<1>2. r.stat # "in_use"
  BY DEF Agree, Order
<1>3. ~ InUse(q)
  BY DEF Early, InUse
<1> QED  BY <1>1, <1>2, <1>3
         DEF Agree, Order, OneAddr, Naming, Single, AckTime, DiscoverTime, OfferTime, UseTime

\* The first OFFER, o: the client asks for its address.
LEMMA OfferTakenAgrees ==
    ASSUME NEW m \in Int, NEW r, NEW life \in Int, NEW wait \in Int, NEW p,
           NEW use \in Int, NEW N, Agree(m, r, life, wait, p, use, N), Aged(N),
           NEW q, NEW quse, NEW M, NEW d, NEW o \in Offers(N),
           Early(p), q.stat = "wait_ack1", q.addr = o.msg.ipaddr, NoNews(N, M \ {d}),
           d.up, d.msg.type = "REQUEST", d.msg.ipaddr = q.addr
    PROVE  Agree(m, r, life, wait, q, quse, M)
<1>1. /\ Requests(M) \subseteq Requests(N) \cup {d} /\ Releases(M) \subseteq Releases(N)
      /\ Offers(M) \subseteq Offers(N) /\ Acks(M) \subseteq Acks(N)
      /\ Discovers(M) \subseteq Discovers(N)
  BY DEF NoNews, Discovers, Requests, Releases, Offers, Acks
<1>2. ~ Early(q) /\ ~ InUse(q)
  BY DEF Early, InUse
<1>3. r.stat # "in_use" /\ Order(r, q, M)
  BY <1>1, <1>2 DEF Agree, Order
<1>4. r.stat # "none" => q.addr = r.addr
  BY DEF Agree, OneAddr, Naming
<1>5. OneAddr(r, q, M)
  BY <1>1, <1>4 DEF Agree, OneAddr, Naming
<1>6. Len(Config) > 1 => r.stat # "none"
  BY DEF Agree, Single
<1>7. AckTime(m, r, life, M) /\ OfferTime(r, wait, M)
  BY <1>1 DEF Agree, AckTime, OfferTime
<1>8. DiscoverTime(m, r, life, wait, q, M)
  <2> SUFFICES ASSUME NEW e \in Discovers(M), Offered(r)
               PROVE  wait + e.age + MaxAge + MaxAlarm + 1 >= MessageTimeout
    BY <1>3 DEF DiscoverTime
  <2>1. e.age \in Int /\ 0 <= e.age
    BY <1>1, Ages
  <2>2. wait + o.age + MaxAlarm + 1 >= MessageTimeout
    BY DEF Agree, OfferTime
  <2>3. o.age \in Int /\ o.age <= MaxAge
    BY Ages
  <2> QED  BY <2>1, <2>2, <2>3, Constants
<1> QED  BY <1>2, <1>3, <1>5, <1>6, <1>7, <1>8 DEF Agree, Single, UseTime

\* A client that had its OFFER goes on.  The address it goes on with is the one
\* it had, or that of a datagram o; it may send a REQUEST, d.
LEMMA GoesOnAgrees ==
    ASSUME NEW m \in Int, NEW r, NEW life \in Int, NEW wait \in Int, NEW p,
           NEW use \in Int, NEW N, Agree(m, r, life, wait, p, use, N), Aged(N),
           NEW q, NEW quse \in Int, NEW M, NEW d,
           ~ Early(p), ~ Early(q), NoNews(N, M \ {d}),
           q.addr = p.addr \/ \E o \in Naming(N) : q.addr = o.msg.ipaddr,
           d.up, d.msg.type = "REQUEST", d.msg.ipaddr = q.addr,
           InUse(q) /\ quse > Delay =>
              (InUse(p) /\ quse <= use) \/ (quse <= m /\ Acks(N) # {})
    PROVE  Agree(m, r, life, wait, q, quse, M)
<1>1. /\ Requests(M) \subseteq Requests(N) \cup {d} /\ Releases(M) \subseteq Releases(N)
      /\ Offers(M) \subseteq Offers(N) /\ Acks(M) \subseteq Acks(N)
      /\ Discovers(M) \subseteq Discovers(N)
  BY DEF NoNews, Discovers, Requests, Releases, Offers, Acks
<1>2. Order(r, q, M)
  BY <1>1 DEF Agree, Order
<1>3. r.stat # "none" => q.addr = r.addr
  BY DEF Agree, OneAddr
<1>4. OneAddr(r, q, M)
  BY <1>1, <1>3 DEF Agree, OneAddr, Naming
<1>5. Len(Config) > 1 => Single(r, q, M)
  BY <1>1 DEF Agree, Single
<1>6. /\ AckTime(m, r, life, M) /\ OfferTime(r, wait, M)
      /\ DiscoverTime(m, r, life, wait, q, M)
  BY <1>1 DEF Agree, AckTime, OfferTime, DiscoverTime
<1>7. UseTime(r, life, q, quse)
  <2> SUFFICES ASSUME InUse(q), quse > Delay
               PROVE  r.stat = "in_use" /\ life + Delay >= quse
    BY DEF UseTime
  <2>1. CASE InUse(p) /\ quse <= use
    <3>1. r.stat = "in_use" /\ life + Delay >= use
      BY <2>1, Constants DEF Agree, UseTime
    <3> QED  BY <2>1, <3>1, Constants
  <2>2. CASE quse <= m /\ Acks(N) # {}
    <3>1. PICK a \in Acks(N) : TRUE
      BY <2>2
    <3>2. r.stat = "in_use" /\ life + a.age + Left + 1 >= m
      BY DEF Agree, AckTime
    <3>3. a.age \in Int /\ a.age <= MaxAge
      BY Ages
    <3> QED  BY <2>2, <3>2, <3>3, Constants
  <2> QED  BY <2>1, <2>2
<1> QED  BY <1>2, <1>4, <1>5, <1>6, <1>7 DEF Agree

(***************************************************************************)
(* A second passes.                                                        *)
(***************************************************************************)
Older(N) == {[d EXCEPT !.age = @ + 1] : d \in {x \in N : x.age < MaxAge}}

LEMMA SecondAgrees ==
    ASSUME NEW m \in Int, NEW r, NEW life \in Int, NEW wait \in Int, NEW p,
           NEW use \in Int, NEW N \in SUBSET Packet, Agree(m, r, life, wait, p, use, N),
           NEW slife \in Int, NEW swait \in Int, NEW suse \in Int, NEW M,
           slife >= life - 1, swait >= wait - 1, InUse(p) => suse = use - 1,
           M \subseteq Older(N)
    PROVE  Agree(m, r, slife, swait, p, suse, M)
<1>1. ASSUME NEW e \in M
      PROVE  \E d \in N : /\ e.age = d.age + 1 /\ d.age \in Int
                          /\ e.up = d.up /\ e.msg = d.msg
  BY <1>1, Constants DEF Older, Packet
<1>2. ASSUME NEW e \in Discovers(M)
      PROVE  \E d \in Discovers(N) : e.age = d.age + 1 /\ d.age \in Int
  BY <1>1, <1>2 DEF Discovers
<1>3. ASSUME NEW e \in Offers(M)
      PROVE  \E d \in Offers(N) : e.age = d.age + 1 /\ d.age \in Int
  BY <1>1, <1>3 DEF Offers
<1>4. ASSUME NEW e \in Acks(M)
      PROVE  \E d \in Acks(N) : e.age = d.age + 1 /\ d.age \in Int
  BY <1>1, <1>4 DEF Acks
<1>5. \A e \in Naming(M) : \E d \in Naming(N) : e.msg = d.msg
  BY <1>1 DEF Naming, Requests, Offers, Acks
<1>6. /\ Releases(N) = {} => Releases(M) = {}
      /\ Requests(N) = {} => Requests(M) = {}
  BY <1>1 DEF Releases, Requests
<1>7. Order(r, p, M)
  BY <1>4, <1>6 DEF Agree, Order
<1>8. OneAddr(r, p, M)
  BY <1>5 DEF Agree, OneAddr
<1>9. Len(Config) > 1 => Single(r, p, M)
  BY <1>2, <1>3 DEF Agree, Single
<1>10. AckTime(m, r, slife, M)
  <2> SUFFICES ASSUME NEW e \in Acks(M)
               PROVE  r.stat = "in_use" /\ slife + e.age + Left + 1 >= m
    BY DEF AckTime
  <2>1. PICK d \in Acks(N) : e.age = d.age + 1 /\ d.age \in Int
    BY <1>4
  <2>2. r.stat = "in_use" /\ life + d.age + Left + 1 >= m
    BY DEF Agree, AckTime
  <2> QED  BY <2>1, <2>2, Constants
<1>11. DiscoverTime(m, r, slife, swait, p, M)
  <2> SUFFICES ASSUME NEW e \in Discovers(M)
               PROVE  /\ r.stat = "in_use" => slife + e.age + Left + 1 >= m
                      /\ ~ Early(p) /\ Offered(r) =>
                            swait + e.age + MaxAge + MaxAlarm + 1 >= MessageTimeout
    BY DEF DiscoverTime
  <2>1. PICK d \in Discovers(N) : e.age = d.age + 1 /\ d.age \in Int
    BY <1>2
  <2>2. ASSUME r.stat = "in_use" PROVE slife + e.age + Left + 1 >= m
    <3>1. life + d.age + Left + 1 >= m
      BY <2>2 DEF Agree, DiscoverTime
    <3> QED  BY <2>1, <3>1, Constants
  <2>3. ASSUME ~ Early(p), Offered(r)
        PROVE  swait + e.age + MaxAge + MaxAlarm + 1 >= MessageTimeout
    <3>1. wait + d.age + MaxAge + MaxAlarm + 1 >= MessageTimeout
      BY <2>3 DEF Agree, DiscoverTime
    <3> QED  BY <2>1, <3>1, Constants
  <2> QED  BY <2>2, <2>3
<1>12. OfferTime(r, swait, M)
  <2> SUFFICES ASSUME NEW e \in Offers(M), Offered(r)
               PROVE  swait + e.age + MaxAlarm + 1 >= MessageTimeout
    BY DEF OfferTime
  <2>1. PICK d \in Offers(N) : e.age = d.age + 1 /\ d.age \in Int
    BY <1>3
  <2>2. wait + d.age + MaxAlarm + 1 >= MessageTimeout
    BY DEF Agree, OfferTime
  <2> QED  BY <2>1, <2>2, Constants
<1>13. UseTime(r, slife, p, suse)
  <2> SUFFICES ASSUME InUse(p), suse > Delay
               PROVE  r.stat = "in_use" /\ slife + Delay >= suse
    BY DEF UseTime
  <2>1. suse = use - 1 /\ use > Delay
    BY Constants
  <2>2. r.stat = "in_use" /\ life + Delay >= use
    BY <2>1 DEF Agree, UseTime
  <2> QED  BY <2>1, <2>2, Constants
<1> QED  BY <1>7, <1>8, <1>9, <1>10, <1>11, <1>12, <1>13 DEF Agree

(***************************************************************************)
(* MyDhcp takes its steps from its own instances of the two modules, which *)
(* are the same.                                                           *)
(***************************************************************************)
LEMMA ServerActions ==
    ASSUME NEW f, NEW m
    PROVE  /\ S!RecvKnown(f, m) => P!RecvKnown(f, m)
           /\ S!RecvNew(f, m) => P!RecvNew(f, m)
           /\ S!RecvNoIp(f, m) => P!RecvNoIp(f, m)
           /\ S!RecvStranger(f, m) => P!RecvStranger(f, m)
           /\ S!Timers => \/ \E e \in Client : P!TtlTimeout(e) \/ P!ReqTimeout(e)
                          \/ P!TtlScanned \/ P!ToutScanned
           /\ S!InterruptedByAlarm => P!InterruptedByAlarm
           /\ S!sigalrm_handler => P!sigalrm_handler
           /\ S!read_config => P!read_config
           /\ S!Init => P!Init
<1> USE DEF S!Live, P!Live, S!Decremented, P!Decremented, S!decrement_ttl, P!decrement_ttl,
        S!decrement_tout, P!decrement_tout, S!ticked, P!ticked, S!AfterAlarm,
        P!AfterAlarm, S!is_addr_pool_empty, P!is_addr_pool_empty, S!insert_addr_pool,
        P!insert_addr_pool, S!Fetched, P!Fetched, S!fetch_addr_pool, P!fetch_addr_pool,
        S!Send, P!Send, S!SendNothing, P!SendNothing, S!Put, P!Put, S!in_state,
        P!in_state, S!change_state, P!change_state, S!terminate, P!terminate, S!OfferOk,
        P!OfferOk, S!send_offer_ok, P!send_offer_ok, S!resend_offer, P!resend_offer,
        S!send_ack_ok, P!send_ack_ok, S!reset_ttl, P!reset_ttl, S!send_ack_ng,
        P!send_ack_ng, S!send_offer_ng, P!send_offer_ng, S!release_client,
        P!release_client, S!pstab, P!pstab, S!Calls, P!Calls, S!Ignored, P!Ignored,
        S!NoRow, P!NoRow, S!FSM_func, P!FSM_func, S!recv_discover, P!recv_discover,
        S!Names, P!Names, S!recv_request, P!recv_request, S!recv_release,
        P!recv_release, S!get_event, P!get_event, S!Requests, P!Requests, S!Noted,
        P!Noted, S!ReadsAddr, P!ReadsAddr, S!LoopTop, P!LoopTop, S!ConsumeAlarm,
        P!ConsumeAlarm, S!Pass, P!Pass, S!Crash, P!Crash, S!create_client,
        P!create_client, S!NoClient, P!NoClient, S!Bare, P!Bare, S!Grant, P!Grant
<1>1. S!RecvKnown(f, m) => P!RecvKnown(f, m)
  BY ZenonT(60) DEF S!RecvKnown, P!RecvKnown
<1>2. S!RecvNew(f, m) => P!RecvNew(f, m)
  BY ZenonT(60) DEF S!RecvNew, P!RecvNew
<1>3. S!RecvNoIp(f, m) => P!RecvNoIp(f, m)
  BY ZenonT(60) DEF S!RecvNoIp, P!RecvNoIp
<1>4. S!RecvStranger(f, m) => P!RecvStranger(f, m)
  BY ZenonT(60) DEF S!RecvStranger, P!RecvStranger
<1>5. S!Timers => \/ \E e \in Client : P!TtlTimeout(e) \/ P!ReqTimeout(e)
                  \/ P!TtlScanned \/ P!ToutScanned
  BY ZenonT(60) DEF S!Timers, S!Scan, P!Scan, S!Expired, P!Expired, S!Silent, P!Silent, S!TtlTimeout,
        P!TtlTimeout, S!TtlScanned, P!TtlScanned, S!ReqTimeout, P!ReqTimeout,
        S!ToutScanned, P!ToutScanned
<1>6. S!InterruptedByAlarm => P!InterruptedByAlarm
  BY ZenonT(60) DEF S!InterruptedByAlarm, P!InterruptedByAlarm, S!Interrupted, P!Interrupted
<1>7. S!sigalrm_handler => P!sigalrm_handler
  BY ZenonT(60) DEF S!sigalrm_handler, P!sigalrm_handler
<1>8. S!read_config => P!read_config
  BY ZenonT(60) DEF S!read_config, P!read_config, S!ttl_rejected, P!ttl_rejected
<1>9. S!Init => P!Init
  BY ZenonT(60) DEF S!Init, P!Init
<1> QED  BY <1>1, <1>2, <1>3, <1>4, <1>5, <1>6, <1>7, <1>8, <1>9

LEMMA ClientActions ==
    ASSUME NEW c, NEW m
    PROVE  /\ C!RecvMessage(c, m) => Q!RecvMessage(c, m)
           /\ C!Start(c) => Q!Start(c)
           /\ C!sigalrm_handler(c) => Q!sigalrm_handler(c)
           /\ C!InterruptedByAlarm(c) => Q!InterruptedByAlarm(c)
           /\ C!InterruptedByHup(c) => Q!InterruptedByHup(c)
           /\ C!InterruptedByInt(c) => Q!InterruptedByInt(c)
<1> USE DEF C!Decremented, Q!Decremented, C!decrement_ttl, Q!decrement_ttl,
        C!decrement_tout, Q!decrement_tout, C!ticked, Q!ticked, C!AfterAlarm,
        Q!AfterAlarm, C!change_state, Q!change_state, C!Send, Q!Send, C!SendNothing,
        Q!SendNothing, C!Become, Q!Become, C!Request, Q!Request, C!send_discover,
        Q!send_discover, C!resend_discover, Q!resend_discover, C!send_request_alloc,
        Q!send_request_alloc, C!resend_request_alloc, Q!resend_request_alloc,
        C!send_request_ext, Q!send_request_ext, C!send_release, Q!send_release,
        C!start_using, Q!start_using, C!terminate, Q!terminate, C!pstab, Q!pstab,
        C!Calls, Q!Calls, C!Ignored, Q!Ignored, C!FSM_func, Q!FSM_func, C!WaitingStat,
        Q!WaitingStat, C!UsingStat, Q!UsingStat, C!Alarmed, Q!Alarmed, C!IdlePass,
        Q!IdlePass, C!IdleEvent, Q!IdleEvent, C!Bare, Q!Bare, C!Grant, Q!Grant
<1>1. C!RecvMessage(c, m) => Q!RecvMessage(c, m)
  BY ZenonT(60) DEF C!RecvMessage, Q!RecvMessage, C!Stored, Q!Stored, C!recv_offer, Q!recv_offer,
        C!recv_ack, Q!recv_ack, C!get_event, Q!get_event
<1>2. C!Start(c) => Q!Start(c)
  BY ZenonT(60) DEF C!Start, Q!Start
<1>3. C!sigalrm_handler(c) => Q!sigalrm_handler(c)
  BY ZenonT(60) DEF C!sigalrm_handler, Q!sigalrm_handler, C!Signal, Q!Signal
<1>4. C!InterruptedByAlarm(c) => Q!InterruptedByAlarm(c)
  BY ZenonT(60) DEF C!InterruptedByAlarm, Q!InterruptedByAlarm
<1>5. C!InterruptedByHup(c) => Q!InterruptedByHup(c)
  BY ZenonT(60) DEF C!InterruptedByHup, Q!InterruptedByHup
<1>6. C!InterruptedByInt(c) => Q!InterruptedByInt(c)
  BY ZenonT(60) DEF C!InterruptedByInt, Q!InterruptedByInt
<1> QED  BY <1>1, <1>2, <1>3, <1>4, <1>5, <1>6

(***************************************************************************)
(* The contents of records, processes and datagrams.                       *)
(***************************************************************************)
LEMMA SameMessages ==
    /\ P!Message = Message /\ Q!Message = Message
    /\ \A type, code : P!Bare(type, code) = Bare(type, code) /\ Q!Bare(type, code) = Bare(type, code)
    /\ \A type, code, ttl, a, mask :
          /\ P!Grant(type, code, ttl, a, mask) = Grant(type, code, ttl, a, mask)
          /\ Q!Grant(type, code, ttl, a, mask) = Grant(type, code, ttl, a, mask)
BY DEF P!Message, Q!Message, Message, P!DhcpType, Q!DhcpType, DhcpType, P!DhcpCode, Q!DhcpCode,
       DhcpCode, P!Netmask, Q!Netmask, Netmask, P!Ttl, Q!Ttl, Ttl, P!Bare, Q!Bare, Bare,
       P!Grant, Q!Grant, Grant

Given == P!Elements(Config)

Release(a) == [Bare("RELEASE", "OK") EXCEPT !.ipaddr = a]

\* What a client, and the server, sends when the ttl of the configuration is m.
ClientSays(x, m) ==
    \/ x = Bare("DISCOVER", "OK")
    \/ \E code \in {"REQ_ALLOC", "REQ_EXT"}, a \in Given : x = Grant("REQUEST", code, m, a, "mask")
    \/ \E a \in Given : x = Release(a)

ServerSays(x, m) ==
    \/ x \in {Bare("OFFER", "ERR_NOIP"), Bare("ACK", "ERR_REQ")}
    \/ \E type \in {"OFFER", "ACK"}, a \in Given : x = Grant(type, "OK", m, a, "mask")

LEMMA Kinds ==
    /\ \A type, code : Bare(type, code).type = type /\ Bare(type, code).code = code
    /\ \A type, code, ttl, a, mask :
          /\ Grant(type, code, ttl, a, mask).type = type
          /\ Grant(type, code, ttl, a, mask).code = code
          /\ Grant(type, code, ttl, a, mask).ttl = ttl
          /\ Grant(type, code, ttl, a, mask).ipaddr = a
          /\ Grant(type, code, ttl, a, mask).netmask = mask
    /\ \A a : Release(a).type = "RELEASE"
BY DEF Bare, Grant, Release

GoodPacket(d, m) ==
    d \in Packet /\ IF d.up THEN ClientSays(d.msg, m) ELSE ServerSays(d.msg, m)

GoodProcess(p, m) ==
    /\ p \in Q!Process
    /\ p.ttl <= m
    /\ p.pc = "start" => p.stat = "init"
    /\ p.pc # "exit" /\ ~ Early(p) => p.ttlcounter = m /\ p.addr \in Given /\ p.netmask = "mask"

Unconfigured ==
    /\ ttl_max = 0
    /\ \A c \in Client : cl[c].pc # "exit" => Early(cl[c])
    /\ \A d \in net : d.msg = Bare("DISCOVER", "OK")

Contents ==
    /\ P!IInv
    /\ cl \in [Client -> Q!Process]
    /\ due \subseteq Client \cup {Server}
    /\ \A d \in net : GoodPacket(d, ttl_max)
    /\ \A d \in sent : Down(d) \in net
    /\ \A c \in Client : GoodProcess(cl[c], ttl_max) /\ client[c].stat # "init"
    /\ pc = "config" => Unconfigured

(***************************************************************************)
(* The agreement of each client with the server.  A process handles an     *)
(* alarm when its loop comes to it: ServerLag and ClientLag count those    *)
(* that were raised, or are due this second, and are not handled yet.      *)
(***************************************************************************)
ServerLag == alarm_flag + (IF Server \in due THEN 1 ELSE 0)
ClientLag(c) == cl[c].alarm_flag + (IF c \in due THEN 1 ELSE 0)

Life(c) == client[c].ttl - ServerLag

\* An offered record that nothing arrives for is offered twice.
Wait(c) == client[c].tout + (IF client[c].stat = "wait_req1" THEN MessageTimeout ELSE 0) - ServerLag

Use(c) == cl[c].ttl - ClientLag(c)

Of(c) == {d \in net : d.client = c}

Agreed(c) == Agree(ttl_max, client[c], Life(c), Wait(c), cl[c], Use(c), Of(c))

Joint == \A c \in Client : cl[c].pc # "exit" /\ ttl_max > Delay => Agreed(c)

\* The numbers in a state with good contents.
Counted ==
    /\ ttl_max \in Int /\ 0 <= ttl_max
    /\ alarm_flag \in Int /\ 0 <= alarm_flag /\ alarm_flag <= MaxAlarm
    /\ ServerLag \in Int /\ 0 <= ServerLag /\ ServerLag <= MaxAlarm + 1
    /\ \A c \in Client :
          /\ client[c].ttl \in Int /\ 0 <= client[c].ttl
          /\ client[c].tout \in Int /\ 0 <= client[c].tout
          /\ cl[c].ttl \in Int /\ 0 <= cl[c].ttl /\ cl[c].ttl <= ttl_max
          /\ cl[c].alarm_flag \in Int /\ 0 <= cl[c].alarm_flag
          /\ cl[c].alarm_flag <= MaxAlarm
          /\ ClientLag(c) \in Int /\ 0 <= ClientLag(c)
          /\ ClientLag(c) <= MaxAlarm + 1
          /\ Life(c) \in Int /\ Wait(c) \in Int
          /\ Use(c) \in Int /\ Use(c) <= ttl_max
          /\ Of(c) \in SUBSET Packet /\ Aged(Of(c))

LEMMA Numbers == Contents => Counted
<1> SUFFICES ASSUME Contents PROVE Counted
  OBVIOUS
<1>1. P!TypeOK
  BY DEF Contents, P!IInv
<1>2. ttl_max \in Int /\ 0 <= ttl_max
  BY <1>1, TtlModulusAssumption DEF P!TypeOK, P!Ttl
<1>3. alarm_flag \in Int /\ 0 <= alarm_flag /\ alarm_flag <= MaxAlarm
  BY <1>1, Constants DEF P!TypeOK
<1>4. ServerLag \in Int /\ 0 <= ServerLag /\ ServerLag <= MaxAlarm + 1
  BY <1>3, Constants DEF ServerLag
<1>5. ASSUME NEW c \in Client
      PROVE  /\ client[c].ttl \in Int /\ 0 <= client[c].ttl
             /\ client[c].tout \in Int /\ 0 <= client[c].tout
  <2>1. client[c] \in P!ClientRec \cup {P!NoClient}
    BY <1>1 DEF P!TypeOK
  <2> QED  BY <2>1, TtlModulusAssumption, Constants DEF P!ClientRec, P!NoClient, P!Ttl
<1>6. ASSUME NEW c \in Client
      PROVE  /\ cl[c].ttl \in Int /\ 0 <= cl[c].ttl /\ cl[c].ttl <= ttl_max
             /\ cl[c].alarm_flag \in Int /\ 0 <= cl[c].alarm_flag
             /\ cl[c].alarm_flag <= MaxAlarm
  <2>1. cl[c] \in Q!Process /\ cl[c].ttl <= ttl_max
    BY DEF Contents, GoodProcess
  <2> QED  BY <2>1, TtlModulusAssumption, Constants DEF Q!Process, Q!Ttl
<1>7. ASSUME NEW c \in Client
      PROVE  /\ ClientLag(c) \in Int /\ 0 <= ClientLag(c) /\ ClientLag(c) <= MaxAlarm + 1
  BY <1>6, Constants DEF ClientLag
<1>8. ASSUME NEW c \in Client
      PROVE  /\ Life(c) \in Int /\ Wait(c) \in Int
             /\ Use(c) \in Int /\ Use(c) <= ttl_max
  <2>1. Life(c) \in Int
    BY <1>4, <1>5 DEF Life
  <2>2. Wait(c) \in Int
    BY <1>4, <1>5, Constants DEF Wait
  <2>3. Use(c) \in Int /\ Use(c) <= ttl_max
    BY <1>2, <1>6, <1>7 DEF Use
  <2> QED  BY <2>1, <2>2, <2>3
<1>9. ASSUME NEW c \in Client
      PROVE  Of(c) \in SUBSET Packet /\ Aged(Of(c))
  BY DEF Contents, GoodPacket, Of, Aged, Packet
<1> QED  BY <1>2, <1>3, <1>4, <1>5, <1>6, <1>7, <1>8, <1>9 DEF Counted

LEMMA NumbersNext == Contents' => Counted'
BY Numbers, PTL

(***************************************************************************)
(* Contents: the steps of the server.                                      *)
(***************************************************************************)
\* What the server has to give comes from the configuration.
LEMMA RecordsGiven ==
    ASSUME Contents, pc # "config"
    PROVE  /\ \A c \in Client : client[c].stat # "none" => client[c].addr \in Given
           /\ Len(pool) # 0 => Head(pool) \in Given
<1>1. Given = P!Elements(pool) \cup {client[c].addr : c \in P!Live(client)} /\ pool \in Seq(Addr)
  BY DEF Contents, P!IInv, P!PoolPartition, P!NoneLost, P!Configured, Given, P!TypeOK
<1>2. \A c \in Client : client[c].stat # "none" => c \in P!Live(client)
  BY DEF P!Live
<1>3. Len(pool) # 0 => Head(pool) \in P!Elements(pool)
  BY <1>1 DEF P!Elements
<1> QED  BY <1>1, <1>2, <1>3

\* What a step of the server must show.
ServerStepGood ==
    /\ P!IInv' /\ pc' # "config" /\ ttl_max' = ttl_max
    /\ \A c \in Client : client'[c].stat # "init"
    /\ \A d \in sent' : d.to \in Client /\ ServerSays(d.msg, ttl_max)

LEMMA ServerContents ==
    ASSUME Contents, ServerStepGood, ClientsIdle, due' \subseteq Client \cup {Server},
           NEW rest \in SUBSET net, Carry(rest)
    PROVE  Contents'
<1>1. sent' \subseteq [to : Client, msg : Message]
  BY SameMessages DEF ServerStepGood, P!IInv, P!TypeOK
<1>2. net' = rest \cup {Down(d) : d \in sent'}
  BY DEF Carry, ClientsIdle
<1>3. ASSUME NEW d \in sent' PROVE GoodPacket(Down(d), ttl_max)
  BY <1>1, Constants DEF Down, GoodPacket, Packet, ServerStepGood
<1>4. \A d \in net' : GoodPacket(d, ttl_max')
  BY <1>2, <1>3 DEF Contents, ServerStepGood
<1> QED  BY <1>2, <1>4 DEF Contents, ServerStepGood, ClientsIdle

\* What the theorems about the two programs assume.
LEMMA Assumed ==
    /\ NoAddr \notin Addr /\ TtlModulus \in Nat \ {0} /\ Server \notin Client
    /\ Config \in Seq(Addr)
    /\ \A i, j \in 1 .. Len(Config) : Config[i] = Config[j] => i = j
    /\ ConfigTtl \subseteq Int /\ MessageTimeout \in Nat \ {0} /\ MaxAlarm \in Nat
    /\ Message \subseteq P!Message /\ Message \subseteq Q!Message
BY AddrAssumption, TtlModulusAssumption, ServerAssumption, ConfigAssumption,
   ConfigTtlAssumption, MessageTimeoutAssumption, MaxAlarmAssumption, SameMessages

LEMMA KnownGood ==
    ASSUME Contents, NEW f \in Client, NEW m \in Message, ClientSays(m, ttl_max),
           P!RecvKnown(f, m)
    PROVE  ServerStepGood
<1>1. P!IInv /\ P!IInv'
  BY P!RecvKnownStep, Assumed DEF Contents
<1>2. /\ pc # "config" /\ pc' # "config" /\ ttl_max' = ttl_max
      /\ client[f].stat # "none"
  BY DEF P!RecvKnown, P!Pass, P!Crash, P!LoopTop, P!Live
<1>3. /\ \A e \in Client \ {f} : P!Kept(e)
      /\ \/ P!Kept(f) /\ sent' = {}
         \/ P!LeasedTo(f, m)
         \/ client[f].stat = "init"
         \/ P!Refused(f, m)
  BY <1>1, P!KnownRecord, Assumed
<1>4. ASSUME NEW e \in Client, P!Kept(e) PROVE client'[e].stat # "init"
  BY <1>4 DEF Contents, P!Kept, P!OnTime
<1>5. CASE P!Kept(f) /\ sent' = {}
  BY <1>1, <1>2, <1>3, <1>4, <1>5 DEF ServerStepGood
<1>6. CASE P!LeasedTo(f, m)
  <2>1. m.ttl = ttl_max
    <3>1. m.type = "REQUEST"
      BY <1>6 DEF P!LeasedTo
    <3> QED  BY <3>1 DEF ClientSays, Bare, Grant, Release
  <2>2. client[f].addr \in Given
    BY <1>2, RecordsGiven
  <2>3. sent' = {[to |-> f, msg |-> Grant("ACK", "OK", ttl_max, client[f].addr, "mask")]}
    BY <1>6, <2>1, SameMessages DEF P!LeasedTo
  <2>4. client'[f].stat # "init"
    BY <1>6 DEF P!LeasedTo
  <2>5. \A d \in sent' : d.to \in Client /\ ServerSays(d.msg, ttl_max)
    BY <2>2, <2>3 DEF ServerSays
  <2> QED  BY <1>1, <1>2, <1>3, <1>4, <2>4, <2>5 DEF ServerStepGood
<1>7. CASE P!Refused(f, m)
  <2>1. client'[f].stat # "init"
    BY <1>7 DEF P!Refused, P!NoClient
  <2>2. \A d \in sent' : d.to \in Client /\ ServerSays(d.msg, ttl_max)
    BY <1>7, SameMessages DEF P!Refused, ServerSays
  <2> QED  BY <1>1, <1>2, <1>3, <1>4, <2>1, <2>2 DEF ServerStepGood
<1> QED  BY <1>3, <1>5, <1>6, <1>7 DEF Contents

\* An OFFER of an address of the configuration.
LEMMA OfferGood ==
    ASSUME NEW f \in Client, NEW a \in Given, NEW stat \in {"wait_req1", "wait_req2"},
           P!OfferedTo(f, a, stat)
    PROVE  /\ client'[f].stat # "init"
           /\ \A d \in sent' : d.to \in Client /\ ServerSays(d.msg, ttl_max)
BY SameMessages DEF P!OfferedTo, ServerSays

LEMMA NewGood ==
    ASSUME Contents, NEW f \in Client, P!RecvNew(f, Bare("DISCOVER", "OK"))
    PROVE  ServerStepGood
<1>1. P!RecvNew(f, P!Bare("DISCOVER", "OK")) /\ P!Bare("DISCOVER", "OK") \in Message
  BY SameMessages, TtlModulusAssumption DEF Bare, Message, DhcpType, DhcpCode, Netmask, Ttl
<1>2. P!IInv /\ P!IInv'
  BY <1>1, P!RecvNewStep, Assumed DEF Contents
<1>3. pc # "config" /\ pc' # "config" /\ ttl_max' = ttl_max
  BY <1>1 DEF P!RecvNew, P!Pass, P!LoopTop
<1>4. /\ \A e \in Client \ {f} : P!Kept(e)
      /\ Len(pool) # 0
      /\ P!OfferedTo(f, Head(pool), "wait_req1")
  BY <1>1, <1>2, P!NewRecord, Assumed
<1>5. \A e \in Client \ {f} : client'[e].stat # "init"
  BY <1>4 DEF Contents, P!Kept, P!OnTime
<1>6. Head(pool) \in Given
  BY <1>3, <1>4, RecordsGiven
<1> QED  BY <1>2, <1>3, <1>4, <1>5, <1>6, OfferGood DEF ServerStepGood

LEMMA OthersGood ==
    ASSUME Contents, NEW f \in Client, NEW m \in Message,
           P!RecvNoIp(f, m) \/ P!RecvStranger(f, m)
    PROVE  ServerStepGood
<1>1. P!IInv /\ P!IInv'
  BY P!RecvNoIpStep, P!RecvStrangerStep, Assumed DEF Contents
<1>2. pc # "config" /\ pc' # "config" /\ ttl_max' = ttl_max
  BY DEF P!RecvNoIp, P!RecvStranger, P!Pass, P!LoopTop, P!Crash
<1>3. /\ \A e \in Client : P!Kept(e)
      /\ sent' \subseteq {[to |-> f, msg |-> P!Bare("OFFER", "ERR_NOIP")]}
  BY <1>1, P!OtherRecords, Assumed
<1>4. \A e \in Client : client'[e].stat # "init"
  BY <1>3 DEF Contents, P!Kept, P!OnTime
<1>5. \A d \in sent' : d.to \in Client /\ ServerSays(d.msg, ttl_max)
  BY <1>3, SameMessages DEF ServerSays
<1> QED  BY <1>1, <1>2, <1>4, <1>5 DEF ServerStepGood

LEMMA AlarmGood ==
    ASSUME Contents, P!InterruptedByAlarm
    PROVE  ServerStepGood
<1>1. P!IInv /\ P!IInv'
  BY P!InterruptedStep, Assumed DEF Contents
<1>2. pc # "config" /\ pc' # "config" /\ ttl_max' = ttl_max
  BY DEF P!InterruptedByAlarm, P!Interrupted
<1>3. /\ \A e \in Client : P!OnTime(client[e], alarm_flag + 1, client'[e], alarm_flag')
      /\ sent' = {}
  BY <1>1, P!InterruptedRecord, Assumed
<1> QED  BY <1>1, <1>2, <1>3 DEF Contents, ServerStepGood, P!OnTime

LEMMA TimeoutGood ==
    ASSUME Contents, NEW f \in Client, P!TtlTimeout(f) \/ P!ReqTimeout(f)
    PROVE  ServerStepGood
<1>1. P!IInv /\ P!IInv'
  BY P!TimerStep, Assumed DEF Contents
<1>2. pc # "config" /\ pc' # "config" /\ ttl_max' = ttl_max
  BY DEF P!TtlTimeout, P!ReqTimeout, P!Scan
<1>3. /\ \A e \in Client \ {f} : client'[e] = client[e]
      /\ \/ /\ client[f].stat = "in_use" /\ client[f].ttl = 0
            /\ client'[f] = P!NoClient /\ sent' = {}
         \/ /\ client[f].stat = "wait_req1" /\ client[f].tout = 0
            /\ P!OfferedTo(f, client[f].addr, "wait_req2")
         \/ /\ client[f].stat = "wait_req2" /\ client[f].tout = 0
            /\ client'[f] = P!NoClient /\ sent' = {}
  BY <1>1, P!TimeoutRecord, Assumed
<1>4. \A e \in Client \ {f} : client'[e].stat # "init"
  BY <1>3 DEF Contents
<1>5. CASE client'[f] = P!NoClient /\ sent' = {}
  BY <1>1, <1>2, <1>4, <1>5 DEF ServerStepGood, P!NoClient
<1>6. CASE client[f].stat = "wait_req1" /\ P!OfferedTo(f, client[f].addr, "wait_req2")
  <2>1. client[f].addr \in Given
    BY <1>2, <1>6, RecordsGiven
  <2> QED  BY <1>1, <1>2, <1>4, <1>6, <2>1, OfferGood DEF ServerStepGood
<1> QED  BY <1>3, <1>5, <1>6

LEMMA ScannedGood ==
    ASSUME Contents, P!TtlScanned \/ P!ToutScanned
    PROVE  ServerStepGood
<1>1. P!IInv /\ P!IInv'
  BY P!ScannedStep, Assumed DEF Contents
<1>2. /\ pc # "config" /\ pc' # "config" /\ ttl_max' = ttl_max
      /\ client' = client /\ sent' = {}
  BY DEF P!TtlScanned, P!ToutScanned, P!Scan, P!LoopTop, P!NoRow, P!SendNothing
<1> QED  BY <1>1, <1>2 DEF Contents, ServerStepGood

\* A datagram comes up to the server.
LEMMA UpGood ==
    ASSUME Contents, NEW d \in net, ToServer(d)
    PROVE  ServerStepGood
<1>1. d \in Packet /\ ClientSays(d.msg, ttl_max)
  BY DEF Contents, GoodPacket, ToServer
<1>2. d.client \in Client /\ d.msg \in Message
  BY <1>1 DEF Packet
<1>3. CASE S!RecvKnown(d.client, d.msg)
  BY <1>1, <1>2, <1>3, ServerActions, KnownGood
<1>4. CASE S!RecvNew(d.client, d.msg)
  <2>1. P!RecvNew(d.client, d.msg)
    BY <1>4, ServerActions
  <2>2. d.msg.type = "DISCOVER"
    BY <2>1 DEF P!RecvNew
  <2>3. d.msg = Bare("DISCOVER", "OK")
    BY <1>1, <2>2, Kinds DEF ClientSays
  <2> QED  BY <1>2, <2>1, <2>3, NewGood
<1>5. CASE S!RecvNoIp(d.client, d.msg) \/ S!RecvStranger(d.client, d.msg)
  BY <1>2, <1>5, ServerActions, OthersGood
<1> QED  BY <1>3, <1>4, <1>5 DEF ToServer

\* The configuration is read: until now nobody has an address.
LEMMA ConfigContents ==
    ASSUME Contents, S!read_config, ClientsIdle, UNCHANGED due, Carry(net)
    PROVE  Contents'
<1>1. P!read_config
  BY ServerActions
<1>2. P!IInv'
  BY <1>1, P!ReadConfigStep, Assumed DEF Contents
<1>3. /\ pc = "config" /\ pc' # "config"
      /\ UNCHANGED <<client, sent, cl, due>>
  BY <1>1 DEF P!read_config, ClientsIdle
<1>4. net' = net
  BY <1>3 DEF Carry, ClientsIdle, Contents
<1>5. Unconfigured
  BY <1>3 DEF Contents
<1>8. ASSUME NEW d \in net PROVE d \in Packet /\ d.up
  <2>1. d \in Packet /\ (~ d.up => ServerSays(d.msg, ttl_max))
    BY DEF Contents, GoodPacket
  <2>2. d.msg = Bare("DISCOVER", "OK")
    BY <1>5 DEF Unconfigured
  <2>3. d.msg.type = "DISCOVER"
    BY <2>2, Kinds
  <2>4. ~ ServerSays(d.msg, ttl_max)
    BY <2>3, Kinds DEF ServerSays
  <2> QED  BY <2>1, <2>4 DEF Packet
<1>6. \A d \in net : GoodPacket(d, ttl_max')
  BY <1>5, <1>8 DEF GoodPacket, ClientSays, Unconfigured
<1>7. \A c \in Client : GoodProcess(cl[c], ttl_max')
  <2> SUFFICES ASSUME NEW c \in Client PROVE GoodProcess(cl[c], ttl_max')
    OBVIOUS
  <2>1. GoodProcess(cl[c], ttl_max) /\ cl[c].ttl \in Int
    BY Numbers DEF Contents, Counted
  <2>2. ttl_max = 0 /\ (cl[c].pc # "exit" => Early(cl[c]))
    BY <1>5 DEF Unconfigured
  <2>3. ttl_max' \in Int /\ 0 <= ttl_max'
    BY <1>2, TtlModulusAssumption DEF P!IInv, P!TypeOK, P!Ttl
  <2> QED  BY <2>1, <2>2, <2>3 DEF GoodProcess
<1> QED  BY <1>2, <1>3, <1>4, <1>6, <1>7 DEF Contents

\* A timer of the server that fires while its loop works.
LEMMA RaisedContents ==
    ASSUME Contents, S!sigalrm_handler, ClientsIdle, due' = due \ {Server}, Carry(net)
    PROVE  /\ Contents' /\ net' = net /\ UNCHANGED <<pc, ttl_max, client, cl>>
           /\ alarm_flag' = alarm_flag + 1
<1>1. P!sigalrm_handler
  BY ServerActions
<1>2. P!IInv'
  BY <1>1, P!SignalStep, Assumed DEF Contents
<1>3. /\ UNCHANGED <<pc, ttl_max, client, sent, cl>> /\ alarm_flag' = alarm_flag + 1
  BY <1>1 DEF P!sigalrm_handler, ClientsIdle
<1>4. net' = net
  BY <1>3 DEF Carry, ClientsIdle, Contents
<1> QED  BY <1>2, <1>3, <1>4 DEF Contents, Unconfigured

\* A second passes.
LEMMA TickContents ==
    ASSUME Contents, Tick
    PROVE  Contents'
<1>1. /\ UNCHANGED <<svars, cl>> /\ sent' = {} /\ from' = Server
      /\ net' = {[d EXCEPT !.age = @ + 1] : d \in {x \in net : x.age < MaxAge}}
      /\ due' = Alive
  BY DEF Tick, ServerIdle, ClientsIdle
<1>2. P!TypeOK'
  BY <1>1 DEF svars, Contents, P!IInv, P!TypeOK
<1>3. P!IInv'
  BY <1>1, <1>2, P!IdleStep, Assumed DEF Contents, svars
<1>4. ASSUME NEW d \in net, d.age < MaxAge
      PROVE  GoodPacket([d EXCEPT !.age = @ + 1], ttl_max)
  BY <1>4, Constants DEF Contents, GoodPacket, Packet
<1>5. \A d \in net' : GoodPacket(d, ttl_max')
  BY <1>1, <1>4 DEF svars
<1>6. due' \subseteq Client \cup {Server}
  BY <1>1 DEF Alive
<1>7. pc # "config"
  BY DEF Tick
<1> QED  BY <1>1, <1>3, <1>5, <1>6, <1>7 DEF Contents, svars

(***************************************************************************)
(* Contents: the steps of a client.                                        *)
(***************************************************************************)
Asking(a) == {Grant("REQUEST", code, ttl_max, a, "mask") : code \in {"REQ_ALLOC", "REQ_EXT"}}
Saying(c, messages) == \E x \in messages : csent' \subseteq {[from |-> c, msg |-> x]}

\* A client without an OFFER goes on without one, ...
MovesEarly(c, s) == Early(cl[c]) /\ Early(s) /\ Saying(c, {Bare("DISCOVER", "OK")})

\* ... or takes the first, ...
TakesOffer(c, s) ==
    /\ Early(cl[c]) /\ s.stat = "wait_ack1"
    /\ \E o \in Offers(Of(c)) : s.addr = o.msg.ipaddr
    /\ Saying(c, Asking(s.addr))

\* ... or goes on with the address it has; n alarms are pending when it does.
MovesOn(c, n, s) ==
    /\ ~ Early(cl[c]) /\ ~ Early(s)
    /\ s.addr = cl[c].addr \/ \E o \in Naming(Of(c)) : s.addr = o.msg.ipaddr
    /\ Saying(c, Asking(s.addr))
    /\ InUse(s) => \/ s.ttl = ttl_max /\ Acks(Of(c)) # {}
                   \/ InUse(cl[c]) /\ (s.ttl = 0 \/ s.ttl - s.alarm_flag = cl[c].ttl - n)

Exits(c, s) == s.pc = "exit" /\ (Early(cl[c]) => csent' = {})

Passed(c, n, s) ==
    /\ cl' = [cl EXCEPT ![c] = s]
    /\ GoodProcess(s, ttl_max)
    /\ \A x \in csent' : x.from = c /\ ClientSays(x.msg, ttl_max)
    /\ MovesEarly(c, s) \/ TakesOffer(c, s) \/ MovesOn(c, n, s) \/ Exits(c, s)

Leased(r) == r.ttlcounter = ttl_max /\ r.addr \in Given /\ r.netmask = "mask"

\* One pass of a client that runs.
LEMMA PassMoves ==
    ASSUME Contents, NEW c \in Client, NEW q \in Q!Raised, NEW r, NEW s, NEW event,
           cl[c].pc = "recv", q.stat = cl[c].stat, q.ttl = cl[c].ttl,
           Q!Handled(c, q, r, event, s),
           \/ event \notin {"offer_ok", "ack_ok"} /\ Q!SameLease(cl[c], r)
           \/ /\ event = "offer_ok" /\ Leased(r)
              /\ \E o \in Offers(Of(c)) : r.addr = o.msg.ipaddr
           \/ /\ event = "ack_ok" /\ Leased(r)
              /\ \E o \in Acks(Of(c)) : r.addr = o.msg.ipaddr
    PROVE  Passed(c, q.alarm_flag, s)
<1>1. /\ r \in Q!Process /\ s \in Q!Process /\ r.stat = cl[c].stat
      /\ r.ttl = Q!AfterAlarm(q).ttl /\ r.alarm_flag = Q!Decremented(q.alarm_flag)
      /\ cl' = [cl EXCEPT ![c] = s]
      /\ s.addr = r.addr /\ s.netmask = r.netmask /\ s.ttlcounter = r.ttlcounter
      /\ s.alarm_flag = r.alarm_flag /\ s.pc = IF s.stop_flag THEN "exit" ELSE "recv"
      /\ Q!Outcome(c, r, event, s) \/ Q!Stopped(r, s)
  BY DEF Q!Handled, Q!PassOver, Q!SameLease
<1>2. /\ q.ttl \in Int /\ r.ttl \in Int /\ 0 <= r.ttl /\ r.ttl <= q.ttl
      /\ cl[c].ttl \in Int /\ cl[c].ttl <= ttl_max /\ ttl_max \in Int
      /\ cl[c].stat \in {"in_use", "wait_ext_ack"} =>
            r.ttl = 0 \/ r.ttl - r.alarm_flag = cl[c].ttl - q.alarm_flag
  <2>1. /\ Q!AfterAlarm(q).ttl <= q.ttl
        /\ Q!AfterAlarm(q).alarm_flag = Q!Decremented(q.alarm_flag)
        /\ q.stat \in {"in_use", "wait_ext_ack"} =>
              \/ Q!AfterAlarm(q).ttl - Q!AfterAlarm(q).alarm_flag = q.ttl - q.alarm_flag
              \/ Q!AfterAlarm(q).ttl = 0
    BY Q!AfterAlarmProcess, Assumed DEF Q!UsingStat
  <2>2. r.ttl \in Int /\ 0 <= r.ttl /\ q.ttl \in Int
    BY <1>1, TtlModulusAssumption DEF Q!Process, Q!Raised, Q!Ttl
  <2>3. cl[c].ttl \in Int /\ cl[c].ttl <= ttl_max /\ ttl_max \in Int
    BY Numbers DEF Counted
  <2> QED  BY <1>1, <2>1, <2>2, <2>3
<1>3. ~ Early(cl[c]) => Leased(cl[c])
  BY DEF Contents, GoodProcess, Leased
<1>4. event \in {"offer_ok", "ack_ok"} \/ ~ Early(cl[c]) => Leased(r)
  BY <1>3 DEF Q!SameLease, Leased
<1>5. r.addr = cl[c].addr \/ \E o \in Naming(Of(c)) : r.addr = o.msg.ipaddr
  BY DEF Q!SameLease, Naming
<1>6. \A code : Q!Request(code, r) = Grant("REQUEST", code, r.ttlcounter, r.addr, r.netmask)
  BY SameMessages DEF Q!Request
<1>7. s.pc # "start" /\ s.pc \in {"exit", "recv"}
  BY <1>1
<1>8. /\ ~ Early(s) => s.stat \notin {"init", "wait_offer1", "wait_offer2"}
      /\ Early(cl[c]) <=> r.stat \in {"init", "wait_offer1", "wait_offer2"}
      /\ Early(s) <=> s.stat \in {"init", "wait_offer1", "wait_offer2"}
  BY <1>1 DEF Early
\* The three kinds of passes that go on.
<1>10. ASSUME s.stat = r.stat, s.ttl = r.ttl, csent' = {}
       PROVE  Passed(c, q.alarm_flag, s)
  <2>1. GoodProcess(s, ttl_max)
    BY <1>1, <1>2, <1>4, <1>7, <1>8, <1>10 DEF GoodProcess, Leased
  <2>2. CASE Early(cl[c])
    BY <1>1, <1>8, <1>10, <2>1, <2>2 DEF Passed, MovesEarly, Saying
  <2>3. CASE ~ Early(cl[c])
    <3>1. InUse(s) => InUse(cl[c]) /\ (s.ttl = 0 \/ s.ttl - s.alarm_flag = cl[c].ttl - q.alarm_flag)
      BY <1>1, <1>2, <1>10 DEF InUse
    <3>2. MovesOn(c, q.alarm_flag, s)
      BY <1>1, <1>5, <1>8, <1>10, <2>3, <3>1 DEF MovesOn, Saying, Asking
    <3> QED  BY <1>1, <1>10, <2>1, <3>2 DEF Passed
  <2> QED  BY <2>2, <2>3
<1>11. ASSUME NEW x, csent' = {[from |-> c, msg |-> x]}, x = Bare("DISCOVER", "OK"),
              Early(cl[c]), s.stat = "wait_offer2", s.ttl = r.ttl
       PROVE  Passed(c, q.alarm_flag, s)
  <2>1. Early(s)
    BY <1>11 DEF Early
  <2>2. GoodProcess(s, ttl_max)
    BY <1>1, <1>2, <1>7, <1>11, <2>1 DEF GoodProcess
  <2>3. MovesEarly(c, s)
    BY <1>11, <2>1 DEF MovesEarly, Saying
  <2>4. \A y \in csent' : y.from = c /\ ClientSays(y.msg, ttl_max)
    BY <1>11 DEF ClientSays
  <2> QED  BY <1>1, <2>2, <2>3, <2>4 DEF Passed
<1>12. ASSUME NEW code \in {"REQ_ALLOC", "REQ_EXT"}, Leased(r),
              csent' = {[from |-> c, msg |-> Q!Request(code, r)]}, s.ttl = r.ttl,
              s.stat \in {"wait_ack1", "wait_ack2", "wait_ext_ack"}
       PROVE  /\ GoodProcess(s, ttl_max) /\ Saying(c, Asking(s.addr))
              /\ \A y \in csent' : y.from = c /\ ClientSays(y.msg, ttl_max)
  <2>1. Q!Request(code, r) = Grant("REQUEST", code, ttl_max, s.addr, "mask")
    BY <1>1, <1>6, <1>12 DEF Leased
  <2>2. s.addr \in Given /\ s.ttlcounter = ttl_max /\ s.netmask = "mask"
    BY <1>1, <1>12 DEF Leased
  <2>3. GoodProcess(s, ttl_max)
    BY <1>1, <1>2, <1>7, <1>12, <2>2 DEF GoodProcess
  <2>4. Saying(c, Asking(s.addr))
    BY <1>12, <2>1 DEF Saying, Asking
  <2>5. ClientSays(Q!Request(code, r), ttl_max)
    BY <2>1, <2>2 DEF ClientSays
  <2> QED  BY <1>12, <2>3, <2>4, <2>5
<1>20. CASE \/ Q!Stopped(r, s)
            \/ csent' = {} /\ s.stat = r.stat /\ s.ttl = r.ttl
  BY <1>10, <1>20 DEF Q!Stopped
<1>21. CASE /\ r.stat = "wait_offer1" /\ event = "timeout"
            /\ Q!Asks(c, r, s, Q!Bare("DISCOVER", "OK"), "wait_offer2")
  BY <1>8, <1>11, <1>21, SameMessages DEF Q!Asks, Q!Says
<1>22. CASE /\ r.stat \in {"wait_offer1", "wait_offer2"} /\ event = "offer_ok"
            /\ Q!Asks(c, r, s, Q!Request("REQ_ALLOC", r), "wait_ack1")
  <2>1. Leased(r) /\ \E o \in Offers(Of(c)) : s.addr = o.msg.ipaddr
    BY <1>1, <1>22
  <2>2. /\ GoodProcess(s, ttl_max) /\ Saying(c, Asking(s.addr))
        /\ \A y \in csent' : y.from = c /\ ClientSays(y.msg, ttl_max)
    BY <1>12, <1>22, <2>1 DEF Q!Asks, Q!Says
  <2>3. TakesOffer(c, s)
    BY <1>8, <1>22, <2>1, <2>2 DEF TakesOffer, Q!Asks
  <2> QED  BY <1>1, <2>2, <2>3 DEF Passed
<1>23. CASE \/ /\ r.stat = "wait_ack1" /\ event = "timeout"
               /\ Q!Asks(c, r, s, Q!Request("REQ_ALLOC", r), "wait_ack2")
            \/ /\ r.stat = "in_use" /\ event = "half_ttl"
               /\ Q!Asks(c, r, s, Q!Request("REQ_EXT", r), "wait_ext_ack")
  <2>1. ~ Early(cl[c]) /\ Leased(r)
    BY <1>4, <1>8, <1>23
  <2>2. /\ GoodProcess(s, ttl_max) /\ Saying(c, Asking(s.addr))
        /\ \A y \in csent' : y.from = c /\ ClientSays(y.msg, ttl_max)
    BY <1>12, <1>23, <2>1 DEF Q!Asks, Q!Says
  <2>3. InUse(s) => InUse(cl[c]) /\ (s.ttl = 0 \/ s.ttl - s.alarm_flag = cl[c].ttl - q.alarm_flag)
    BY <1>1, <1>2, <1>23 DEF InUse, Q!Asks
  <2>4. ~ Early(s)
    BY <1>23 DEF Early, Q!Asks
  <2>5. MovesOn(c, q.alarm_flag, s)
    BY <1>1, <1>5, <2>1, <2>2, <2>3, <2>4 DEF MovesOn
  <2> QED  BY <1>1, <2>2, <2>5 DEF Passed
<1>24. CASE /\ r.stat \in {"wait_ack1", "wait_ack2", "wait_ext_ack"} /\ event = "ack_ok"
            /\ csent' = {} /\ s.stat = "in_use" /\ s.ttl = r.ttlcounter
  <2>1. Leased(r) /\ (\E o \in Acks(Of(c)) : r.addr = o.msg.ipaddr) /\ ~ Early(cl[c]) /\ ~ Early(s)
    BY <1>8, <1>24 DEF Early
  <2>2. s.ttl = ttl_max /\ Leased(s)
    BY <1>1, <1>24, <2>1 DEF Leased
  <2>3. GoodProcess(s, ttl_max)
    BY <1>1, <1>2, <1>7, <2>2 DEF GoodProcess, Leased
  <2>4. MovesOn(c, q.alarm_flag, s)
    BY <1>1, <1>5, <1>24, <2>1, <2>2 DEF MovesOn, Saying, Asking
  <2> QED  BY <1>1, <1>24, <2>3, <2>4 DEF Passed
<1>25. CASE /\ r.stat \in Q!UsingStat /\ event = "sighup"
            /\ Q!Says(c, [Q!Bare("RELEASE", "OK") EXCEPT !.ipaddr = r.addr])
            /\ s.stat = "term" /\ s.ttl = r.ttl /\ s.stop_flag
  <2>1. ~ Early(cl[c]) /\ Leased(r)
    BY <1>4, <1>8, <1>25 DEF Q!UsingStat
  <2>2. csent' = {[from |-> c, msg |-> Release(r.addr)]}
    BY <1>25, SameMessages DEF Q!Says, Release
  <2>3. \A y \in csent' : y.from = c /\ ClientSays(y.msg, ttl_max)
    BY <2>1, <2>2 DEF ClientSays, Leased
  <2>4. s.pc = "exit"
    BY <1>1, <1>25
  <2>5. GoodProcess(s, ttl_max) /\ Exits(c, s)
    BY <1>1, <1>2, <1>25, <2>1, <2>4 DEF GoodProcess, Exits
  <2> QED  BY <1>1, <2>3, <2>5 DEF Passed
<1>26. CASE csent' = {} /\ s.stat = "term" /\ s.ttl = r.ttl /\ s.stop_flag
  <2>1. s.pc = "exit"
    BY <1>1, <1>26
  <2>2. GoodProcess(s, ttl_max) /\ Exits(c, s)
    BY <1>1, <1>2, <1>26, <2>1 DEF GoodProcess, Exits
  <2> QED  BY <1>1, <1>26, <2>2 DEF Passed
<1> QED  BY <1>1, <1>20, <1>21, <1>22, <1>23, <1>24, <1>25, <1>26 DEF Q!Outcome

\* A pass with a datagram that came down to the client.
LEMMA HeardPasses ==
    ASSUME Contents, NEW d \in net, ToClient(d)
    PROVE  /\ d.client \in Client /\ cl[d.client].pc = "recv"
           /\ \E s : Passed(d.client, cl[d.client].alarm_flag, s)
<1> DEFINE c == d.client
<1>1. d \in Packet /\ ~ d.up /\ ServerSays(d.msg, ttl_max)
  BY DEF Contents, GoodPacket, ToClient
<1>2. c \in Client /\ d.msg \in Message
  BY <1>1 DEF Packet
<1>3. Q!RecvMessage(c, d.msg)
  BY ClientActions DEF ToClient
<1>4. cl \in [Client -> Q!Process] /\ d.msg \in Q!Message
  BY <1>2, SameMessages DEF Contents
<1>5. cl[c].pc = "recv" /\ \E s \in Q!Process : Q!Hears(c, d.msg, cl[c], s)
  BY <1>2, <1>3, <1>4, Q!RecvMessageIs, Assumed
<1>6. PICK s \in Q!Process : Q!Hears(c, d.msg, cl[c], s)
  BY <1>5
<1>7. cl[c] \in Q!Raised
  BY <1>2, <1>4, Q!RaisedProcess, Assumed
<1>8. CASE \E r \in Q!Process, event \in {"offer_ng", "ack_ng", "none"} :
             Q!Handled(c, cl[c], r, event, s) /\ Q!SameLease(cl[c], r)
  BY <1>2, <1>5, <1>7, <1>8, PassMoves
<1>9. ASSUME NEW r \in Q!Process, NEW event \in {"offer_ok", "ack_ok"},
             Q!Handled(c, cl[c], r, event, s),
             r.ttlcounter = d.msg.ttl, r.addr = d.msg.ipaddr, r.netmask = d.msg.netmask,
             event = "offer_ok" => d.msg.type = "OFFER" /\ d.msg.code # "ERR_NOIP",
             event = "ack_ok" => d.msg.type = "ACK" /\ d.msg.code # "ERR_REQ"
      PROVE  Passed(c, cl[c].alarm_flag, s)
  <2>1. PICK type \in {"OFFER", "ACK"}, a \in Given : d.msg = Grant(type, "OK", ttl_max, a, "mask")
    BY <1>1, <1>9, Kinds DEF ServerSays
  <2>2. d.msg.type = type /\ d.msg.code = "OK" /\ Leased(r)
    BY <1>9, <2>1, Kinds DEF Leased
  <2>3. CASE event = "offer_ok"
    <3>1. d \in Offers(Of(c))
      BY <1>1, <1>9, <2>2, <2>3 DEF Offers, Of
    <3> QED  BY <1>2, <1>5, <1>7, <1>9, <2>2, <2>3, <3>1, PassMoves
  <2>4. CASE event = "ack_ok"
    <3>1. d \in Acks(Of(c))
      BY <1>1, <1>9, <2>2, <2>4 DEF Acks, Of
    <3> QED  BY <1>2, <1>5, <1>7, <1>9, <2>2, <2>4, <3>1, PassMoves
  <2> QED  BY <2>3, <2>4
<1>10. CASE \E r \in Q!Process, event \in {"offer_ok", "ack_ok"} :
          /\ Q!Handled(c, cl[c], r, event, s)
          /\ r.ttlcounter = d.msg.ttl /\ r.addr = d.msg.ipaddr /\ r.netmask = d.msg.netmask
          /\ event = "offer_ok" => d.msg.type = "OFFER" /\ d.msg.code # "ERR_NOIP"
          /\ event = "ack_ok" => d.msg.type = "ACK" /\ d.msg.code # "ERR_REQ"
  <2>1. PICK r \in Q!Process, event \in {"offer_ok", "ack_ok"} :
          /\ Q!Handled(c, cl[c], r, event, s)
          /\ r.ttlcounter = d.msg.ttl /\ r.addr = d.msg.ipaddr /\ r.netmask = d.msg.netmask
          /\ event = "offer_ok" => d.msg.type = "OFFER" /\ d.msg.code # "ERR_NOIP"
          /\ event = "ack_ok" => d.msg.type = "ACK" /\ d.msg.code # "ERR_REQ"
    BY <1>10
  <2>2. Passed(c, cl[c].alarm_flag, s)
    BY <2>1, <1>9
  <2> QED  BY <1>2, <1>5, <2>2
<1> QED  BY <1>2, <1>5, <1>6, <1>8, <1>10 DEF Q!Hears

\* A pass without a message, that a signal started.
LEMMA InterruptedPasses ==
    ASSUME Contents, NEW c \in Client,
           NEW q \in {cl[c], Q!Alarmed(c), [cl[c] EXCEPT !.sighup_flag = TRUE],
                      [cl[c] EXCEPT !.sigint_flag = TRUE]},
           Q!IdlePass(c, q)
    PROVE  cl[c].pc = "recv" /\ \E s : Passed(c, q.alarm_flag, s)
<1>1. cl \in [Client -> Q!Process]
  BY DEF Contents
<1>2. /\ q \in Q!Raised /\ q.alarm_flag \in 0 .. MaxAlarm + 1
      /\ q.stat = cl[c].stat /\ q.ttl = cl[c].ttl /\ Q!SameLease(cl[c], q)
  BY <1>1, Q!Interruption, Assumed
<1>3. cl[c].pc = "recv" /\ \E s \in Q!Process : Q!Idles(c, q, s)
  BY <1>2, Q!IdlePassIs, Assumed
<1>4. PICK s \in Q!Process : Q!Idles(c, q, s)
  BY <1>3
<1>5. PICK r \in Q!Process,
           event \in {"sighup", "half_ttl", "timeout", "ttl_timeout", "none", "unknown_msg"} :
              Q!Handled(c, q, r, event, s) /\ Q!SameLease(q, r)
  BY <1>4 DEF Q!Idles
<1>6. Q!SameLease(cl[c], r)
  BY <1>2, <1>5 DEF Q!SameLease
<1>7. Passed(c, q.alarm_flag, s)
  BY <1>2, <1>3, <1>5, <1>6, PassMoves
<1> QED  BY <1>3, <1>7

LEMMA AlarmPasses ==
    ASSUME Contents, NEW c \in Client, C!InterruptedByAlarm(c)
    PROVE  cl[c].pc = "recv" /\ \E s : Passed(c, cl[c].alarm_flag + 1, s)
<1>1. Q!InterruptedByAlarm(c)
  BY ClientActions
<1>2. Q!IdlePass(c, Q!Alarmed(c))
  BY <1>1 DEF Q!InterruptedByAlarm
<1>3. Q!Alarmed(c).alarm_flag = cl[c].alarm_flag + 1
  BY DEF Contents, Q!Alarmed, Q!Process
<1>4. Q!Alarmed(c) \in {cl[c], Q!Alarmed(c), [cl[c] EXCEPT !.sighup_flag = TRUE],
                        [cl[c] EXCEPT !.sigint_flag = TRUE]}
  OBVIOUS
<1> QED  BY <1>2, <1>3, <1>4, InterruptedPasses

\* The user ends the client.
LEMMA EndingPasses ==
    ASSUME Contents, NEW c \in Client, C!InterruptedByHup(c) \/ C!InterruptedByInt(c)
    PROVE  cl[c].pc = "recv" /\ \E s : Passed(c, cl[c].alarm_flag, s)
<1>0. cl[c] \in Q!Process
  BY DEF Contents
<1>1. CASE C!InterruptedByHup(c)
  <2> DEFINE q == [cl[c] EXCEPT !.sighup_flag = TRUE]
  <2>1. Q!IdlePass(c, q)
    BY <1>1, ClientActions DEF Q!InterruptedByHup
  <2>2. q.alarm_flag = cl[c].alarm_flag
    BY <1>0 DEF Q!Process
  <2>3. q \in {cl[c], Q!Alarmed(c), [cl[c] EXCEPT !.sighup_flag = TRUE],
               [cl[c] EXCEPT !.sigint_flag = TRUE]}
    OBVIOUS
  <2> HIDE DEF q
  <2> QED  BY <2>1, <2>2, <2>3, InterruptedPasses
<1>2. CASE C!InterruptedByInt(c)
  <2> DEFINE q == [cl[c] EXCEPT !.sigint_flag = TRUE]
  <2>1. Q!IdlePass(c, q)
    BY <1>2, ClientActions DEF Q!InterruptedByInt
  <2>2. q.alarm_flag = cl[c].alarm_flag
    BY <1>0 DEF Q!Process
  <2>3. q \in {cl[c], Q!Alarmed(c), [cl[c] EXCEPT !.sighup_flag = TRUE],
               [cl[c] EXCEPT !.sigint_flag = TRUE]}
    OBVIOUS
  <2> HIDE DEF q
  <2> QED  BY <2>1, <2>2, <2>3, InterruptedPasses
<1> QED  BY <1>1, <1>2

\* The client starts.
LEMMA StartPasses ==
    ASSUME Contents, NEW c \in Client, C!Start(c)
    PROVE  /\ cl[c].pc = "start"
           /\ \E s : Passed(c, cl[c].alarm_flag, s) /\ s.alarm_flag = cl[c].alarm_flag
<1>1. cl \in [Client -> Q!Process] /\ Q!Start(c)
  BY ClientActions DEF Contents
<1>2. /\ cl[c].pc = "start"
      /\ \E s \in Q!Process :
            /\ Q!PassOver(c, cl[c], s)
            /\ Q!Asks(c, cl[c], s, Q!Bare("DISCOVER", "OK"), "wait_offer1")
  BY <1>1, Q!StartIs, Assumed
<1>3. PICK s \in Q!Process :
        /\ Q!PassOver(c, cl[c], s)
        /\ Q!Asks(c, cl[c], s, Q!Bare("DISCOVER", "OK"), "wait_offer1")
  BY <1>2
<1>4. /\ csent' = {[from |-> c, msg |-> Bare("DISCOVER", "OK")]}
      /\ s.stat = "wait_offer1" /\ s.ttl = cl[c].ttl /\ s.pc # "start"
      /\ cl' = [cl EXCEPT ![c] = s] /\ s.alarm_flag = cl[c].alarm_flag
  BY <1>3, SameMessages DEF Q!PassOver, Q!Asks, Q!Says
<1>5. Early(cl[c]) /\ Early(s)
  BY <1>2, <1>4 DEF Contents, GoodProcess, Early
<1>6. GoodProcess(s, ttl_max)
  BY <1>4, <1>5 DEF Contents, GoodProcess
<1>7. Passed(c, cl[c].alarm_flag, s)
  BY <1>4, <1>5, <1>6 DEF Passed, MovesEarly, Saying, ClientSays
<1> QED  BY <1>2, <1>4, <1>7

\* A pass of a client keeps the contents good.
LEMMA PassContents ==
    ASSUME Contents, NEW c \in Client, NEW n, NEW s, cl[c].pc # "exit", Passed(c, n, s),
           ServerIdle, due' \subseteq Client \cup {Server},
           NEW rest \in SUBSET net, Carry(rest)
    PROVE  Contents'
<1>1. /\ UNCHANGED svars /\ sent' = {} /\ from' = Server
      /\ cl' = [cl EXCEPT ![c] = s] /\ GoodProcess(s, ttl_max)
      /\ \A x \in csent' : x.from = c /\ ClientSays(x.msg, ttl_max)
      /\ net' = rest \cup {Up(d) : d \in csent'}
  BY DEF ServerIdle, Passed, Carry
<1>2. P!TypeOK'
  BY <1>1 DEF svars, Contents, P!IInv, P!TypeOK
<1>3. P!IInv'
  BY <1>1, <1>2, P!IdleStep, Assumed DEF Contents, svars
<1>4. \A x \in csent' : x.msg \in Message
  <2>1. ttl_max \in Ttl /\ Given \subseteq Addr /\ 0 \in Ttl
    BY ConfigAssumption, TtlModulusAssumption
       DEF Contents, P!IInv, P!TypeOK, P!Ttl, Ttl, Given, P!Elements
  <2>2. \A x : ClientSays(x, ttl_max) => x \in Message
    BY <2>1 DEF ClientSays, Release, Bare, Grant, Message, DhcpType, DhcpCode, Netmask
  <2> QED  BY <1>1, <2>2
<1>5. ASSUME NEW x \in csent' PROVE GoodPacket(Up(x), ttl_max)
  BY <1>1, <1>4, <1>5, Constants DEF Up, GoodPacket, Packet
<1>6. \A d \in net' : GoodPacket(d, ttl_max')
  BY <1>1, <1>5 DEF Contents, svars
<1>7. cl' \in [Client -> Q!Process]
  BY <1>1 DEF Contents, GoodProcess
<1>8. \A e \in Client : GoodProcess(cl'[e], ttl_max') /\ client'[e].stat # "init"
  BY <1>1 DEF Contents, svars
<1>9. ASSUME pc = "config" PROVE Unconfigured'
  <2>1. Unconfigured /\ Early(cl[c])
    BY <1>9 DEF Contents, Unconfigured
  <2>2. Offers(Of(c)) = {}
    BY <2>1, Kinds DEF Unconfigured, Offers, Of
  <2>3. MovesEarly(c, s) \/ (s.pc = "exit" /\ csent' = {})
    BY <2>1, <2>2 DEF Passed, TakesOffer, MovesOn, Exits
  <2>4. /\ \A x \in csent' : x.msg = Bare("DISCOVER", "OK")
        /\ s.pc # "exit" => Early(s)
    BY <2>3 DEF MovesEarly, Saying
  <2>5. \A d \in net' : d.msg = Bare("DISCOVER", "OK")
    BY <1>1, <2>1, <2>4 DEF Unconfigured, Up
  <2> QED  BY <1>1, <2>1, <2>4, <2>5 DEF Unconfigured, svars, Contents
<1> QED  BY <1>1, <1>3, <1>6, <1>7, <1>8, <1>9 DEF Contents, svars

\* A timer of a client that fires while its loop works.
LEMMA SignalContents ==
    ASSUME Contents, NEW c \in Client, C!sigalrm_handler(c), ServerIdle,
           due' = due \ {c}, Carry(net)
    PROVE  /\ Contents' /\ net' = net /\ UNCHANGED svars
           /\ cl[c].pc # "exit"
           /\ \E s : /\ cl' = [cl EXCEPT ![c] = s] /\ s.alarm_flag = cl[c].alarm_flag + 1
                     /\ s.stat = cl[c].stat /\ s.ttl = cl[c].ttl /\ s.pc = cl[c].pc
                     /\ s.addr = cl[c].addr
<1> DEFINE s == [cl[c] EXCEPT !.alarm_flag = cl[c].alarm_flag + 1]
<1>1. Q!sigalrm_handler(c) /\ cl[c] \in Q!Process
  BY ClientActions DEF Contents
<1>2. cl[c].alarm_flag + 1 \in 0 .. MaxAlarm
  BY <1>1, MaxAlarmAssumption DEF Q!sigalrm_handler, Q!Process
<1>3. cl' = [cl EXCEPT ![c] = s] /\ csent' = {} /\ cl[c].pc # "exit"
  BY <1>1 DEF Q!sigalrm_handler, Q!Signal, Q!SendNothing, Q!Alarmed
<1>4. /\ s \in Q!Process /\ s.alarm_flag = cl[c].alarm_flag + 1
      /\ s.stat = cl[c].stat /\ s.ttl = cl[c].ttl /\ s.pc = cl[c].pc
      /\ s.addr = cl[c].addr /\ s.netmask = cl[c].netmask /\ s.ttlcounter = cl[c].ttlcounter
  BY <1>1, <1>2 DEF Q!Process
<1> HIDE DEF s
<1>5. UNCHANGED svars /\ sent' = {} /\ from' = Server /\ net' = net
  BY <1>3 DEF ServerIdle, Carry
<1>6. P!TypeOK'
  BY <1>5 DEF svars, Contents, P!IInv, P!TypeOK
<1>7. P!IInv'
  BY <1>5, <1>6, P!IdleStep, Assumed DEF Contents, svars
<1>8. GoodProcess(s, ttl_max) /\ (Early(cl[c]) => Early(s))
  BY <1>4 DEF Contents, GoodProcess, Early
<1>9. \A e \in Client : GoodProcess(cl'[e], ttl_max') /\ client'[e].stat # "init"
  BY <1>3, <1>5, <1>8 DEF Contents, svars
<1>10. cl' \in [Client -> Q!Process]
  BY <1>3, <1>4 DEF Contents
<1>11. pc = "config" => Unconfigured'
  BY <1>3, <1>4, <1>5, <1>8 DEF Contents, Unconfigured, svars
<1>12. Contents'
  BY <1>5, <1>7, <1>9, <1>10, <1>11 DEF Contents, svars
<1> QED  BY <1>3, <1>4, <1>5, <1>12

(***************************************************************************)
(* Joint: the steps of the server.                                         *)
(***************************************************************************)
LEMMA ClientSame ==
    ASSUME cl' = cl, due' \in {due, due \ {Server}}, NEW c \in Client
    PROVE  ClientLag(c)' = ClientLag(c) /\ Use(c)' = Use(c)
<1>1. c \in due' <=> c \in due
  BY ServerAssumption
<1> QED  BY <1>1 DEF ClientLag, Use

\* The datagrams of client c after a step of the server.
LEMMA DownTo ==
    ASSUME ClientsIdle, NEW rest \in SUBSET net, Carry(rest), NEW c \in Client
    PROVE  /\ (\A x \in sent' : x.to # c) => Of(c)' \subseteq Of(c)
           /\ \A x : sent' \subseteq {x} => Of(c)' \ {Down(x)} \subseteq Of(c)
<1>1. net' = rest \cup {Down(x) : x \in sent'}
  BY DEF Carry, ClientsIdle
<1>2. \A x \in sent' : Down(x).client = x.to
  BY DEF Down
<1>3. Of(c)' = {d \in net' : d.client = c}
  BY DEF Of
<1>4. Of(c) = {d \in net : d.client = c}
  BY DEF Of
<1>5. (\A x \in sent' : x.to # c) => Of(c)' \subseteq Of(c)
  BY <1>1, <1>2, <1>3, <1>4
<1>6. \A x : sent' \subseteq {x} => Of(c)' \ {Down(x)} \subseteq Of(c)
  BY <1>1, <1>3, <1>4
<1> QED  BY <1>5, <1>6

\* Alarms pending, and with those due this second.
LEMMA LagOf ==
    ASSUME Counted, Counted', NEW c \in Client,
           \/ due' = due /\ P!Kept(c)
           \/ /\ Server \in due /\ due' = due \ {Server}
              /\ P!OnTime(client[c], alarm_flag + 1, client'[c], alarm_flag')
    PROVE  P!OnTime(client[c], ServerLag, client'[c], ServerLag')
<1>1. /\ alarm_flag \in Int /\ alarm_flag' \in Int
      /\ client[c].ttl \in Int /\ client[c].tout \in Int
      /\ client'[c].ttl \in Int /\ client'[c].tout \in Int
  BY DEF Counted
<1>2. CASE due' = due /\ P!Kept(c)
  <2>1. PICK k \in {0, 1} : ServerLag = alarm_flag + k /\ ServerLag' = alarm_flag' + k
    BY <1>2 DEF ServerLag
  <2>2. P!OnTime(client[c], alarm_flag, client'[c], alarm_flag')
    BY <1>2 DEF P!Kept
  <2> QED  BY <1>1, <2>1, <2>2 DEF P!OnTime
<1>3. CASE /\ Server \in due /\ due' = due \ {Server}
           /\ P!OnTime(client[c], alarm_flag + 1, client'[c], alarm_flag')
  <2>1. Server \in due /\ Server \notin due'
    BY <1>3
  <2>2. ServerLag = alarm_flag + 1
    BY <2>1 DEF ServerLag
  <2>3. ServerLag' = alarm_flag' + 0
    BY <2>1 DEF ServerLag
  <2>4. alarm_flag' + 0 = alarm_flag'
    <3>1. \A n \in Int : n + 0 = n
      OBVIOUS
    <3> QED  BY <1>1, <3>1, Zenon
  <2> QED  BY <1>3, <2>2, <2>3, <2>4
<1> QED  BY <1>2, <1>3

\* A record that a step keeps.
LEMMA QuietAgreed ==
    ASSUME Counted, Counted', ttl_max' = ttl_max, cl' = cl, due' \in {due, due \ {Server}},
           NEW c \in Client, Agreed(c), NoNews(Of(c), Of(c)'),
           P!OnTime(client[c], ServerLag, client'[c], ServerLag')
    PROVE  Agreed(c)'
<1>1. /\ ttl_max \in Int /\ Life(c) \in Int /\ Wait(c) \in Int /\ Use(c) \in Int
      /\ Aged(Of(c)) /\ ServerLag \in Int /\ client[c].ttl \in Int /\ client[c].tout \in Int
  BY DEF Counted
<1>2. /\ Life(c)' \in Int /\ Wait(c)' \in Int /\ ServerLag' \in Int
      /\ client'[c].ttl \in Int /\ client'[c].tout \in Int
  BY DEF Counted
<1>3. /\ client'[c].stat = client[c].stat /\ client'[c].addr = client[c].addr
      /\ client[c].stat = "in_use" => client'[c].ttl - ServerLag' >= client[c].ttl - ServerLag
      /\ Offered(client[c]) => client'[c].tout - ServerLag' >= client[c].tout - ServerLag
  BY DEF P!OnTime, Offered
<1>4. client[c].stat = "in_use" => Life(c)' >= Life(c)
  BY <1>3 DEF Life
<1>5. Offered(client[c]) => Wait(c)' >= Wait(c)
  <2>1. PICK k \in {0, MessageTimeout} :
            /\ Wait(c) = client[c].tout + k - ServerLag
            /\ Wait(c)' = client'[c].tout + k - ServerLag'
    BY <1>3 DEF Wait
  <2>2. k \in Int
    BY <2>1, Constants
  <2> HIDE DEF Wait
  <2> QED  BY <1>1, <1>2, <1>3, <2>1, <2>2
<1>6. Use(c)' = Use(c)
  BY ClientSame
<1>7. Agree(ttl_max, client[c], Life(c), Wait(c), cl[c], Use(c), Of(c))
  BY DEF Agreed
<1>8. Agree(ttl_max, client'[c], Life(c)', Wait(c)', cl[c], Use(c), Of(c)')
  BY <1>1, <1>2, <1>3, <1>4, <1>5, <1>7, KeptAgrees
<1> QED  BY <1>6, <1>8 DEF Agreed

\* What the server leaves pending when it answers.
LEMMA LeftOver ==
    ASSUME Counted, alarm_flag' = P!Decremented(alarm_flag), due' = due
    PROVE  ServerLag' \in Int /\ ServerLag' <= Left + 1
<1>1. alarm_flag \in Int /\ 0 <= alarm_flag /\ alarm_flag <= MaxAlarm
  BY DEF Counted
<1>2. MaxAlarm \in Int /\ Left = IF MaxAlarm > 0 THEN MaxAlarm - 1 ELSE 0
  BY Constants DEF Left, S!Decremented
<1>3. alarm_flag' \in Int /\ alarm_flag' <= Left /\ Left \in Int
  BY <1>1, <1>2 DEF P!Decremented
<1>4. PICK k \in {0, 1} : ServerLag' = alarm_flag' + k
  BY DEF ServerLag
<1> HIDE DEF ServerLag
<1> QED  BY <1>3, <1>4

\* All configured addresses are one, or there are several.
LEMMA OneConfigured ==
    ASSUME NEW a \in Given, NEW b \in Given, ~ (Len(Config) > 1)
    PROVE  a = b
<1>1. PICK i \in 1 .. Len(Config), j \in 1 .. Len(Config) : a = Config[i] /\ b = Config[j]
  BY DEF Given, P!Elements
<1>2. Len(Config) \in Int
  BY Constants
<1>3. i = 1 /\ j = 1
  BY <1>2
<1> QED  BY <1>1, <1>3

\* Datagrams name addresses of the configuration.
LEMMA NamedGiven ==
    ASSUME Contents, NEW c \in Client, NEW d \in Naming(Of(c))
    PROVE  d.msg.ipaddr \in Given
<1>1. GoodPacket(d, ttl_max) /\ (d.up => d.msg.type = "REQUEST")
      /\ (~ d.up => d.msg.type \in {"OFFER", "ACK"} /\ d.msg.code = "OK")
  BY DEF Contents, Naming, Requests, Offers, Acks, Of
<1>2. CASE d.up
  BY <1>1, <1>2, Kinds DEF GoodPacket, ClientSays
<1>3. CASE ~ d.up
  BY <1>1, <1>3, Kinds DEF GoodPacket, ServerSays
<1> QED  BY <1>2, <1>3

\* A message for a record is granted, or changes nothing: it cannot be refused.
LEMMA KnownAgreed ==
    ASSUME Contents, Contents', NEW f \in Client, NEW d \in Of(f), d.up, P!RecvKnown(f, d.msg),
           ttl_max' = ttl_max, due' = due, ClientsIdle, NEW rest \in SUBSET net, Carry(rest),
           NEW c \in Client, Agreed(c), cl[c].pc # "exit"
    PROVE  Agreed(c)'
<1>0. Counted /\ Counted' /\ cl' = cl
  BY Numbers, NumbersNext DEF ClientsIdle
<1>1. d.msg \in Message /\ ClientSays(d.msg, ttl_max)
  BY DEF Of, Contents, GoodPacket, Packet
<1>2. /\ \A e \in Client \ {f} : P!Kept(e)
      /\ alarm_flag' = P!Decremented(alarm_flag)
      /\ \/ P!Kept(f) /\ sent' = {}
         \/ P!LeasedTo(f, d.msg)
         \/ P!Refused(f, d.msg)
  BY <1>1, P!KnownRecord, Assumed DEF Contents
<1>3. ASSUME P!Kept(c), \A x \in sent' : x.to # c PROVE Agreed(c)'
  <2>1. NoNews(Of(c), Of(c)')
    BY <1>3, DownTo, Subset
  <2>2. P!OnTime(client[c], ServerLag, client'[c], ServerLag')
    BY <1>0, <1>3, LagOf
  <2> QED  BY <1>0, <2>1, <2>2, QuietAgreed
<1>4. Agree(ttl_max, client[c], Life(c), Wait(c), cl[c], Use(c), Of(c))
  BY DEF Agreed
<1>5. CASE c # f
  <2>1. P!Kept(c)
    BY <1>2, <1>5
  <2>2. \A x \in sent' : x.to # c
    BY <1>2, <1>5 DEF P!LeasedTo, P!Refused
  <2> QED  BY <1>3, <2>1, <2>2
<1>6. CASE c = f /\ P!Kept(f) /\ sent' = {}
  BY <1>3, <1>6
<1>7. CASE c = f /\ P!LeasedTo(f, d.msg)
  <2>1. d \in Requests(Of(c))
    BY <1>7 DEF P!LeasedTo, Requests
  <2>2. ~ Early(cl[c])
    BY <1>4, <2>1 DEF Agree, Order
  <2>3. client[c].stat # "none"
    BY <1>7 DEF P!RecvKnown, P!Live
  <2>4. d.msg.ttl = ttl_max
    BY <1>1, <2>1, Kinds DEF Requests, ClientSays
  <2> DEFINE x == [to |-> f, msg |-> P!Grant("ACK", "OK", d.msg.ttl, client[f].addr, "mask")]
             a == Down(x)
  <2>5. /\ client'[c].stat = "in_use" /\ client'[c].ttl = ttl_max
        /\ client'[c].addr = client[c].addr /\ sent' = {x}
    BY <1>7, <2>4 DEF P!LeasedTo
  <2>6. ~ a.up /\ a.msg.type = "ACK" /\ a.msg.ipaddr = client[c].addr
    BY <1>7, SameMessages, Kinds DEF Down
  <2>7. NoNews(Of(c), Of(c)' \ {a})
    BY <2>5, DownTo, Subset
  <2> HIDE DEF a
  <2>8. /\ ttl_max \in Int /\ Life(c) \in Int /\ Wait(c) \in Int /\ Use(c) \in Int
        /\ Use(c) <= ttl_max /\ Aged(Of(c))
        /\ Life(c)' \in Int /\ Wait(c)' \in Int /\ Aged(Of(c)')
    BY <1>0 DEF Counted
  <2>9. Life(c)' + Left + 1 >= ttl_max
    <3>1. ServerLag' \in Int /\ ServerLag' <= Left + 1
      BY <1>0, <1>2, LeftOver
    <3>2. Life(c)' = ttl_max - ServerLag'
      BY <2>5 DEF Life
    <3> QED  BY <2>8, <3>1, <3>2, Constants
  <2>10. Agree(ttl_max, client'[c], Life(c)', Wait(c)', cl[c], Use(c), Of(c)')
    BY <1>4, <2>2, <2>3, <2>5, <2>6, <2>7, <2>8, <2>9, LeasedAgrees
  <2>11. Use(c)' = Use(c)
    BY <1>0, ClientSame
  <2> QED  BY <1>0, <2>10, <2>11 DEF Agreed
<1>8. CASE c = f /\ P!Refused(f, d.msg)
  <2>1. client[c].stat # "none"
    BY <1>8 DEF P!RecvKnown, P!Live
  <2>2. d.msg.type # "RELEASE"
    BY <1>4, <1>8 DEF Agree, Order, Releases
  <2>3. d.msg.type = "REQUEST" => d.msg.ipaddr = client[c].addr
    BY <1>4, <1>8, <2>1 DEF Agree, OneAddr, Naming, Requests
  <2>4. /\ d.msg.type = "DISCOVER" => d.msg = Bare("DISCOVER", "OK")
        /\ d.msg.type = "REQUEST" => /\ d.msg.code \in {"REQ_ALLOC", "REQ_EXT"}
                                     /\ d.msg.ttl = ttl_max /\ d.msg.netmask = "mask"
    BY <1>1, Kinds DEF ClientSays
  <2>5. ttl_max <= ttl_max
    BY <1>0 DEF Counted
  <2>6. ~ P!Malformed(d.msg, client[f])
    BY <1>8, <2>2, <2>3, <2>4, <2>5, SameMessages DEF P!Malformed, P!Names
  <2> QED  BY <1>8, <2>6 DEF P!Refused
<1> QED  BY <1>2, <1>5, <1>6, <1>7, <1>8

\* A new record is offered the only address, or one that nobody asked for.
LEMMA NewAgreed ==
    ASSUME Contents, Contents', NEW f \in Client, NEW d \in Of(f), d.up,
           P!RecvNew(f, Bare("DISCOVER", "OK")), d.msg.type = "DISCOVER",
           ttl_max' = ttl_max, due' = due, ClientsIdle, NEW rest \in SUBSET net, Carry(rest),
           NEW c \in Client, Agreed(c), cl[c].pc # "exit"
    PROVE  Agreed(c)'
<1>0. Counted /\ Counted' /\ cl' = cl
  BY Numbers, NumbersNext DEF ClientsIdle
<1>1. P!RecvNew(f, P!Bare("DISCOVER", "OK"))
  BY SameMessages
<1>2. /\ \A e \in Client \ {f} : P!Kept(e)
      /\ client[f].stat = "none" /\ Len(pool) # 0
      /\ P!OfferedTo(f, Head(pool), "wait_req1")
  BY <1>1, P!NewRecord, Assumed DEF Contents
<1>3. Agree(ttl_max, client[c], Life(c), Wait(c), cl[c], Use(c), Of(c))
  BY DEF Agreed
<1>4. CASE c # f
  <2>1. P!Kept(c) /\ \A x \in sent' : x.to # c
    BY <1>2, <1>4 DEF P!OfferedTo
  <2>2. NoNews(Of(c), Of(c)')
    BY <2>1, DownTo, Subset
  <2>3. P!OnTime(client[c], ServerLag, client'[c], ServerLag')
    BY <1>0, <2>1, LagOf
  <2> QED  BY <1>0, <2>2, <2>3, QuietAgreed
<1>5. CASE c = f
  <2>1. d \in Discovers(Of(c))
    BY <1>5 DEF Discovers
  <2> DEFINE x == [to |-> f, msg |-> P!Grant("OFFER", "OK", ttl_max, Head(pool), "mask")]
             o == Down(x)
  <2>2. /\ client'[c].stat = "wait_req1" /\ client'[c].tout = MessageTimeout
        /\ client'[c].addr = Head(pool) /\ sent' = {x}
    BY <1>2, <1>5 DEF P!OfferedTo
  <2>3. ~ o.up /\ o.msg.type = "OFFER" /\ o.msg.ipaddr = client'[c].addr
    BY <2>2, SameMessages, Kinds DEF Down
  <2>4. NoNews(Of(c), Of(c)' \ {o})
    BY <2>2, DownTo, Subset
  <2> HIDE DEF o
  <2>5. /\ ttl_max \in Int /\ Life(c) \in Int /\ Wait(c) \in Int /\ Use(c) \in Int
        /\ Aged(Of(c))
        /\ Life(c)' \in Int /\ Wait(c)' \in Int /\ Aged(Of(c)')
        /\ ServerLag' \in Int /\ ServerLag' <= MaxAlarm + 1
    BY <1>0 DEF Counted
  <2>6. Wait(c)' + MaxAlarm + 1 >= MessageTimeout
    <3>1. Wait(c)' = MessageTimeout + MessageTimeout - ServerLag'
      BY <2>2 DEF Wait
    <3>2. ServerLag' \in Int /\ ServerLag' <= MaxAlarm + 1
      BY <2>5
    <3>3. MessageTimeout \in Int /\ 0 <= MessageTimeout /\ MaxAlarm \in Int
      BY Constants
    <3>4. \A t, a, l \in Int : 0 <= t /\ l <= a + 1 => t + t - l + a + 1 >= t
      OBVIOUS
    <3>5. MessageTimeout + MessageTimeout - ServerLag' + MaxAlarm + 1 >= MessageTimeout
      BY <3>2, <3>3, <3>4
    <3> QED  BY <3>1, <3>5, Zenon
  <2>7. Offerable(client'[c].addr, cl[c], Of(c))
    <3>1. client'[c].addr \in Given
      <4>1. pc # "config"
        BY DEF P!RecvNew, P!Pass
      <4> QED  BY <1>2, <2>2, <4>1, RecordsGiven
    <3>2. ~ Early(cl[c]) => cl[c].addr \in Given
      BY DEF Contents, GoodProcess
    <3> QED  BY <3>1, <3>2, NamedGiven, OneConfigured DEF Offerable
  <2>8. Agree(ttl_max, client'[c], Life(c)', Wait(c)', cl[c], Use(c), Of(c)')
    BY <1>2, <1>3, <1>5, <2>1, <2>2, <2>3, <2>4, <2>5, <2>6, <2>7, CreatedAgrees
  <2>9. Use(c)' = Use(c)
    BY <1>0, ClientSame
  <2> QED  BY <1>0, <2>8, <2>9 DEF Agreed
<1> QED  BY <1>4, <1>5

LEMMA OthersAgreed ==
    ASSUME Contents, Contents', NEW f \in Client, NEW m \in Message,
           P!RecvNoIp(f, m) \/ P!RecvStranger(f, m),
           ttl_max' = ttl_max, due' = due, ClientsIdle, NEW rest \in SUBSET net, Carry(rest),
           NEW c \in Client, Agreed(c)
    PROVE  Agreed(c)'
<1>0. Counted /\ Counted' /\ cl' = cl
  BY Numbers, NumbersNext DEF ClientsIdle
<1> DEFINE x == [to |-> f, msg |-> P!Bare("OFFER", "ERR_NOIP")]
<1>1. P!Kept(c) /\ sent' \subseteq {x}
  BY P!OtherRecords, Assumed DEF Contents
<1>2. Of(c)' \ {Down(x)} \subseteq Of(c)
  BY <1>1, DownTo
<1>3. ~ Down(x).up /\ Down(x).msg.code = "ERR_NOIP"
  BY SameMessages, Kinds DEF Down
<1> HIDE DEF x
<1>4. NoNews(Of(c), Of(c)')
  BY <1>2, <1>3 DEF NoNews, Discovers, Requests, Releases, Offers, Acks
<1>5. P!OnTime(client[c], ServerLag, client'[c], ServerLag')
  BY <1>0, <1>1, LagOf
<1> QED  BY <1>0, <1>4, <1>5, QuietAgreed

LEMMA AlarmAgreed ==
    ASSUME Contents, Contents', P!InterruptedByAlarm, Server \in due, due' = due \ {Server},
           ttl_max' = ttl_max, ClientsIdle, Carry(net), NEW c \in Client, Agreed(c)
    PROVE  Agreed(c)'
<1>0. Counted /\ Counted' /\ cl' = cl
  BY Numbers, NumbersNext DEF ClientsIdle
<1>1. P!OnTime(client[c], alarm_flag + 1, client'[c], alarm_flag') /\ sent' = {}
  BY P!InterruptedRecord, Assumed DEF Contents
<1>2. NoNews(Of(c), Of(c)')
  BY <1>1, DownTo, Subset
<1>3. P!OnTime(client[c], ServerLag, client'[c], ServerLag')
  BY <1>0, <1>1, LagOf
<1> QED  BY <1>0, <1>2, <1>3, QuietAgreed

\* The timer fires while the loop works: what was due is pending.
LEMMA RaisedAgreed ==
    ASSUME Contents, Contents', Server \in due, due' = due \ {Server}, net' = net,
           UNCHANGED <<ttl_max, client, cl>>, alarm_flag' = alarm_flag + 1,
           NEW c \in Client, Agreed(c)
    PROVE  Agreed(c)'
<1>0. Counted /\ Counted' /\ cl' = cl
  BY Numbers, NumbersNext
<1>1. /\ alarm_flag \in Int /\ client[c].ttl \in Int /\ client[c].tout \in Int
  BY <1>0 DEF Counted
<1>2. ServerLag' = ServerLag /\ ServerLag \in Int
  <2>1. Server \in due /\ Server \notin due'
    OBVIOUS
  <2>2. ServerLag = alarm_flag + 1
    BY <2>1 DEF ServerLag
  <2>3. ServerLag' = alarm_flag' + 0
    BY <2>1 DEF ServerLag
  <2> QED  BY <1>1, <2>2, <2>3
<1>3. P!OnTime(client[c], ServerLag, client'[c], ServerLag')
  <2>1. client'[c] = client[c]
    OBVIOUS
  <2> QED  BY <1>1, <1>2, <2>1 DEF P!OnTime
<1>4. Of(c)' = Of(c)
  BY DEF Of
<1> QED  BY <1>0, <1>3, <1>4, Subset, QuietAgreed

\* The scans: nobody uses an address whose lease ended, and nothing is left of
\* the exchange a record belonged to.
LEMMA TimeoutAgreed ==
    ASSUME Punctual, Contents, Contents', NEW f \in Client, P!TtlTimeout(f) \/ P!ReqTimeout(f),
           ttl_max' = ttl_max, due' = due, ClientsIdle, Carry(net),
           NEW c \in Client, Agreed(c), ttl_max > Delay
    PROVE  Agreed(c)'
<1>0. Counted /\ Counted' /\ cl' = cl
  BY Numbers, NumbersNext DEF ClientsIdle
<1>1. alarm_flag' = alarm_flag
  BY DEF P!TtlTimeout, P!ReqTimeout, P!Scan
<1>2. ServerLag' = ServerLag
  BY <1>1 DEF ServerLag
<1>3. /\ \A e \in Client \ {f} : client'[e] = client[e]
      /\ \/ /\ client[f].stat = "in_use" /\ client[f].ttl = 0
            /\ client'[f] = P!NoClient /\ sent' = {}
         \/ /\ client[f].stat = "wait_req1" /\ client[f].tout = 0
            /\ P!OfferedTo(f, client[f].addr, "wait_req2")
         \/ /\ client[f].stat = "wait_req2" /\ client[f].tout = 0
            /\ client'[f] = P!NoClient /\ sent' = {}
  BY P!TimeoutRecord, Assumed DEF Contents
<1>4. Agree(ttl_max, client[c], Life(c), Wait(c), cl[c], Use(c), Of(c))
  BY DEF Agreed
<1>5. /\ ttl_max \in Int /\ Life(c) \in Int /\ Wait(c) \in Int /\ Use(c) \in Int
      /\ Aged(Of(c)) /\ client[c].ttl \in Int /\ client[c].tout \in Int
      /\ Life(c)' \in Int /\ Wait(c)' \in Int /\ Aged(Of(c)')
      /\ ServerLag \in Int /\ 0 <= ServerLag /\ ServerLag <= MaxAlarm + 1
  BY <1>0 DEF Counted
<1>6. Use(c)' = Use(c)
  BY <1>0, ClientSame
<1>7. P!NoClient.stat = "none"
  BY DEF P!NoClient
<1>8. CASE c # f
  <2>1. P!OnTime(client[c], ServerLag, client'[c], ServerLag')
    <3>1. client'[c] = client[c]
      BY <1>3, <1>8
    <3> QED  BY <1>2, <1>5, <3>1 DEF P!OnTime
  <2>2. \A x \in sent' : x.to # c
    BY <1>3, <1>8 DEF P!OfferedTo
  <2>3. NoNews(Of(c), Of(c)')
    BY <2>2, DownTo, Subset
  <2> QED  BY <1>0, <2>1, <2>3, QuietAgreed
<1>9. CASE c = f /\ client[f].stat = "in_use" /\ client[f].ttl = 0 /\ client'[f] = P!NoClient /\ sent' = {}
  <2>1. NoNews(Of(c), Of(c)')
    BY <1>9, DownTo, Subset
  <2>2. Life(c) <= 0
    <3>1. Life(c) = 0 - ServerLag
      BY <1>9 DEF Life
    <3> QED  BY <1>5, <3>1
  <2>3. Agree(ttl_max, client'[c], Life(c)', Wait(c)', cl[c], Use(c), Of(c)')
    BY <1>4, <1>5, <1>7, <1>9, <2>1, <2>2, LeaseOverAgrees
  <2> QED  BY <1>0, <1>6, <2>3 DEF Agreed
<1>10. CASE c = f /\ client[f].stat = "wait_req1" /\ client[f].tout = 0 /\ P!OfferedTo(f, client[f].addr, "wait_req2")
  <2> DEFINE x == [to |-> f, msg |-> P!Grant("OFFER", "OK", ttl_max, client[f].addr, "mask")]
             o == Down(x)
  <2>1. /\ client'[c].stat = "wait_req2" /\ client'[c].tout = MessageTimeout
        /\ client'[c].addr = client[c].addr /\ sent' = {x}
    BY <1>10 DEF P!OfferedTo
  <2>2. ~ o.up /\ o.msg.type = "OFFER" /\ o.msg.ipaddr = client[c].addr
    BY <1>10, SameMessages, Kinds DEF Down
  <2>3. NoNews(Of(c), Of(c)' \ {o})
    BY <2>1, DownTo, Subset
  <2> HIDE DEF o
  <2>4. Wait(c) = MessageTimeout - ServerLag /\ Wait(c)' = Wait(c)
    <3>1. Wait(c) = 0 + MessageTimeout - ServerLag
      BY <1>10 DEF Wait
    <3>2. Wait(c)' = MessageTimeout + 0 - ServerLag'
      BY <2>1 DEF Wait
    <3> QED  BY <1>2, <1>5, <3>1, <3>2, Constants
  <2>5. Wait(c) + MaxAlarm + 1 >= MessageTimeout
    BY <1>5, <2>4, Constants
  <2>6. Agree(ttl_max, client'[c], Life(c)', Wait(c), cl[c], Use(c), Of(c)')
    BY <1>4, <1>5, <1>10, <2>1, <2>2, <2>3, <2>5, ResentAgrees
  <2> QED  BY <1>0, <1>6, <2>4, <2>6 DEF Agreed
<1>11. CASE c = f /\ client[f].stat = "wait_req2" /\ client[f].tout = 0 /\ client'[f] = P!NoClient /\ sent' = {}
  <2>1. NoNews(Of(c), Of(c)')
    BY <1>11, DownTo, Subset
  <2>2. Wait(c) <= 0 /\ Offered(client[c])
    <3>1. Wait(c) = 0 + 0 - ServerLag
      BY <1>11 DEF Wait
    <3> QED  BY <1>5, <1>11, <3>1 DEF Offered
  <2>3. Agree(ttl_max, client'[c], Life(c)', Wait(c)', cl[c], Use(c), Of(c)')
    BY <1>4, <1>5, <1>7, <1>11, <2>1, <2>2, OfferOverAgrees
  <2> QED  BY <1>0, <1>6, <2>3 DEF Agreed
<1> QED  BY <1>3, <1>8, <1>9, <1>10, <1>11

LEMMA ScannedAgreed ==
    ASSUME Contents, Contents', P!TtlScanned \/ P!ToutScanned,
           ttl_max' = ttl_max, due' = due, ClientsIdle, Carry(net), NEW c \in Client, Agreed(c)
    PROVE  Agreed(c)'
<1>0. Counted /\ Counted' /\ cl' = cl
  BY Numbers, NumbersNext DEF ClientsIdle
<1>1. client' = client /\ sent' = {} /\ alarm_flag' = alarm_flag
  BY DEF P!TtlScanned, P!ToutScanned, P!Scan, P!NoRow, P!SendNothing
<1>2. NoNews(Of(c), Of(c)')
  BY <1>1, DownTo, Subset
<1>3. ServerLag' = ServerLag
  BY <1>1 DEF ServerLag
<1>4. P!OnTime(client[c], ServerLag, client'[c], ServerLag')
  <2>1. ServerLag \in Int /\ client[c].ttl \in Int /\ client[c].tout \in Int
    BY <1>0 DEF Counted
  <2> QED  BY <1>1, <1>3, <2>1 DEF P!OnTime
<1> QED  BY <1>0, <1>2, <1>4, QuietAgreed

(***************************************************************************)
(* Joint: the configuration is read, a second passes.                      *)
(***************************************************************************)
LEMMA ConfigAgreed ==
    ASSUME Contents, S!read_config, ClientsIdle, UNCHANGED due, Carry(net),
           NEW c \in Client, cl[c].pc # "exit"
    PROVE  Agreed(c)'
<1>1. P!read_config
  BY ServerActions
<1>2. pc = "config" /\ UNCHANGED <<client, sent, cl>>
  BY <1>1 DEF P!read_config, ClientsIdle
<1>3. net' = net
  BY <1>2 DEF Carry, ClientsIdle, Contents
<1>4. Unconfigured /\ client[c].stat = "none"
  BY <1>2 DEF Contents, P!IInv, P!ConfigFirst, P!Live
<1>5. client'[c].stat = "none" /\ Early(cl'[c]) /\ ~ InUse(cl'[c])
  BY <1>2, <1>4 DEF Unconfigured, Early, InUse
<1>6. \A d \in Of(c)' : d.msg.type = "DISCOVER"
  BY <1>3, <1>4, Kinds DEF Of, Unconfigured
<1>7. /\ Requests(Of(c)') = {} /\ Releases(Of(c)') = {}
      /\ Offers(Of(c)') = {} /\ Acks(Of(c)') = {}
  BY <1>6 DEF Requests, Releases, Offers, Acks
<1> DEFINE N == Of(c)'
<1>8. Requests(N) = {} /\ Releases(N) = {} /\ Offers(N) = {} /\ Acks(N) = {}
  BY <1>7
<1> HIDE DEF N
<1>9. ASSUME NEW m, NEW r, NEW life, NEW wait, NEW p, NEW use,
             r.stat = "none", Early(p), ~ InUse(p)
      PROVE  Agree(m, r, life, wait, p, use, N)
  BY <1>8, <1>9 DEF Agree, Order, OneAddr, Single, AckTime, DiscoverTime, OfferTime,
                    UseTime, Offered
<1>10. Agree(ttl_max', client'[c], Life(c)', Wait(c)', cl'[c], Use(c)', N)
  BY <1>5, <1>9
<1> QED  BY <1>10 DEF Agreed, N

LEMMA TickAgreed ==
    ASSUME Contents, Contents', Tick, NEW c \in Client, Agreed(c)
    PROVE  Agreed(c)'
<1>0. Counted /\ Counted'
  BY Numbers, NumbersNext
<1>1. /\ UNCHANGED <<svars, cl>> /\ due' = Alive /\ due \cap Alive = {}
      /\ net' = {[d EXCEPT !.age = @ + 1] : d \in {x \in net : x.age < MaxAge}}
  BY DEF Tick, ServerIdle, ClientsIdle
<1>2. /\ ttl_max' = ttl_max /\ client' = client /\ cl' = cl /\ alarm_flag' = alarm_flag
  BY <1>1 DEF svars
<1>3. /\ ttl_max \in Int /\ Life(c) \in Int /\ Wait(c) \in Int /\ Use(c) \in Int
      /\ Of(c) \in SUBSET Packet
      /\ client[c].ttl \in Int /\ client[c].tout \in Int /\ alarm_flag \in Int
      /\ cl[c].ttl \in Int /\ cl[c].alarm_flag \in Int
      /\ Life(c)' \in Int /\ Wait(c)' \in Int /\ Use(c)' \in Int
      /\ ServerLag \in Int /\ ServerLag' \in Int
  BY <1>0 DEF Counted
<1>4. ServerLag' <= ServerLag + 1
  <2>1. PICK k \in {0, 1}, l \in {0, 1} : ServerLag = alarm_flag + k /\ ServerLag' = alarm_flag' + l
    BY DEF ServerLag
  <2> HIDE DEF ServerLag
  <2> QED  BY <1>2, <1>3, <2>1
<1>5. Life(c)' >= Life(c) - 1
  <2>1. Life(c) = client[c].ttl - ServerLag /\ Life(c)' = client[c].ttl - ServerLag'
    BY <1>2 DEF Life
  <2> QED  BY <1>3, <1>4, <2>1
<1>6. Wait(c)' >= Wait(c) - 1
  <2>1. PICK k \in {0, MessageTimeout} :
            Wait(c) = client[c].tout + k - ServerLag /\ Wait(c)' = client[c].tout + k - ServerLag'
    BY <1>2 DEF Wait
  <2>2. k \in Int
    BY <2>1, Constants
  <2> HIDE DEF Wait
  <2> QED  BY <1>3, <1>4, <2>1, <2>2
<1>7. InUse(cl[c]) => Use(c)' = Use(c) - 1
  <2> SUFFICES ASSUME InUse(cl[c]) PROVE Use(c)' = Use(c) - 1
    OBVIOUS
  <2>1. c \in Alive
    BY DEF Alive, InUse
  <2>2. c \in due' /\ c \notin due
    BY <1>1, <2>1
  <2>3. Use(c) = cl[c].ttl - (cl[c].alarm_flag + 0) /\ Use(c)' = cl[c].ttl - (cl[c].alarm_flag + 1)
    BY <1>2, <2>2 DEF Use, ClientLag
  <2> QED  BY <1>3, <2>3
<1>8. Of(c)' \subseteq Older(Of(c))
  <2>1. \A d \in net : [d EXCEPT !.age = @ + 1].client = d.client
    BY DEF Contents, GoodPacket, Packet
  <2> QED  BY <1>1, <2>1 DEF Of, Older
<1>9. Agree(ttl_max, client[c], Life(c), Wait(c), cl[c], Use(c), Of(c))
  BY DEF Agreed
<1>10. Agree(ttl_max, client[c], Life(c)', Wait(c)', cl[c], Use(c)', Of(c)')
  BY <1>3, <1>5, <1>6, <1>7, <1>8, <1>9, SecondAgrees
<1> QED  BY <1>2, <1>10 DEF Agreed

(***************************************************************************)
(* Joint: the steps of a client.                                           *)
(***************************************************************************)
LEMMA ServerSame ==
    ASSUME ServerIdle, NEW c \in Client, due' \in {due, due \ {c}}, NEW e \in Client
    PROVE  /\ ttl_max' = ttl_max /\ client'[e] = client[e]
           /\ Life(e)' = Life(e) /\ Wait(e)' = Wait(e)
<1>1. ttl_max' = ttl_max /\ client' = client /\ alarm_flag' = alarm_flag
  BY DEF ServerIdle, svars
<1>2. Server \in due' <=> Server \in due
  BY ServerAssumption
<1>3. ServerLag' = ServerLag
  BY <1>1, <1>2 DEF ServerLag
<1> QED  BY <1>1, <1>3 DEF Life, Wait

\* The datagrams of client e after a step of client c.
LEMMA UpFrom ==
    ASSUME ServerIdle, NEW rest \in SUBSET net, Carry(rest), NEW e \in Client
    PROVE  /\ (\A x \in csent' : x.from # e) => Of(e)' \subseteq Of(e)
           /\ \A x : csent' \subseteq {x} => Of(e)' \ {Up(x)} \subseteq Of(e)
<1>1. net' = rest \cup {Up(x) : x \in csent'}
  BY DEF Carry, ServerIdle
<1>2. \A x \in csent' : Up(x).client = x.from
  BY DEF Up
<1>3. Of(e)' = {d \in net' : d.client = e} /\ Of(e) = {d \in net : d.client = e}
  BY DEF Of
<1>4. (\A x \in csent' : x.from # e) => Of(e)' \subseteq Of(e)
  BY <1>1, <1>2, <1>3
<1>5. \A x : csent' \subseteq {x} => Of(e)' \ {Up(x)} \subseteq Of(e)
  BY <1>1, <1>3
<1> QED  BY <1>4, <1>5

\* The other clients.
LEMMA OthersQuiet ==
    ASSUME Counted, Counted', NEW c \in Client, NEW s, cl' = [cl EXCEPT ![c] = s],
           cl \in [Client -> Q!Process], ServerIdle, due' \in {due, due \ {c}},
           NEW rest \in SUBSET net, Carry(rest), \A x \in csent' : x.from = c,
           NEW e \in Client \ {c}, Agreed(e)
    PROVE  Agreed(e)'
<1>1. cl'[e] = cl[e] /\ (e \in due' <=> e \in due)
  OBVIOUS
<1>2. Use(e)' = Use(e)
  BY <1>1 DEF Use, ClientLag
<1>3. /\ ttl_max' = ttl_max /\ client'[e] = client[e]
      /\ Life(e)' = Life(e) /\ Wait(e)' = Wait(e)
  BY ServerSame
<1>4. NoNews(Of(e), Of(e)')
  BY UpFrom, Subset
<1>5. /\ ttl_max \in Int /\ Life(e) \in Int /\ Wait(e) \in Int /\ Use(e) \in Int
      /\ Aged(Of(e))
  BY DEF Counted
<1>6. Agree(ttl_max, client[e], Life(e), Wait(e), cl[e], Use(e), Of(e))
  BY DEF Agreed
<1>7. Life(e) >= Life(e) /\ Wait(e) >= Wait(e)
  BY <1>5
<1>8. Agree(ttl_max, client[e], Life(e), Wait(e), cl[e], Use(e), Of(e)')
  BY <1>4, <1>5, <1>6, <1>7, KeptAgrees
<1> QED  BY <1>1, <1>2, <1>3, <1>8 DEF Agreed

\* A pass of client c.
LEMMA PassAgreed ==
    ASSUME Contents, Contents', NEW c \in Client, NEW n, NEW s, Passed(c, n, s),
           \/ due' = due /\ n = cl[c].alarm_flag
           \/ c \in due /\ due' = due \ {c} /\ n = cl[c].alarm_flag + 1,
           ServerIdle, NEW rest \in SUBSET net, Carry(rest),
           NEW e \in Client, Agreed(e), cl'[e].pc # "exit"
    PROVE  Agreed(e)'
<1>0. /\ Counted /\ Counted' /\ cl \in [Client -> Q!Process]
      /\ cl' = [cl EXCEPT ![c] = s] /\ \A x \in csent' : x.from = c
      /\ due' \in {due, due \ {c}}
  BY Numbers, NumbersNext DEF Contents, Passed
<1>1. CASE e # c
  BY <1>0, <1>1, OthersQuiet
<1>2. CASE e = c
  <2>1. cl'[c] = s
    BY <1>0
  <2>2. /\ ttl_max' = ttl_max /\ client'[c] = client[c]
        /\ Life(c)' = Life(c) /\ Wait(c)' = Wait(c)
    BY <1>0, ServerSame
  <2>3. /\ ttl_max \in Int /\ 0 <= ttl_max /\ Life(c) \in Int /\ Wait(c) \in Int /\ Use(c) \in Int
        /\ Use(c)' \in Int /\ Use(c)' <= ttl_max /\ Aged(Of(c))
    BY <1>0, <2>2 DEF Counted
  <2>4. Agree(ttl_max, client[c], Life(c), Wait(c), cl[c], Use(c), Of(c))
    BY <1>2 DEF Agreed
  <2>5. MovesEarly(c, s) \/ TakesOffer(c, s) \/ MovesOn(c, n, s)
    BY <1>2, <2>1 DEF Passed, Exits
  <2>6. ASSUME NEW messages, Saying(c, messages)
        PROVE  \E d : NoNews(Of(c), Of(c)' \ {d}) /\ d.up /\ d.msg \in messages
    <3>1. PICK x \in messages : csent' \subseteq {[from |-> c, msg |-> x]}
      BY <2>6 DEF Saying
    <3> DEFINE d == Up([from |-> c, msg |-> x])
    <3>2. Of(c)' \ {d} \subseteq Of(c)
      BY <3>1, UpFrom
    <3>3. d.up /\ d.msg = x
      BY DEF Up
    <3> HIDE DEF d
    <3>4. NoNews(Of(c), Of(c)' \ {d})
      BY <3>2, Subset
    <3> USE DEF d
    <3> QED  BY <3>3, <3>4
  <2>7. CASE MovesEarly(c, s)
    <3>1. PICK d : NoNews(Of(c), Of(c)' \ {d}) /\ d.up /\ d.msg = Bare("DISCOVER", "OK")
      <4>1. Saying(c, {Bare("DISCOVER", "OK")})
        BY <2>7 DEF MovesEarly
      <4>2. PICK d : NoNews(Of(c), Of(c)' \ {d}) /\ d.up /\ d.msg \in {Bare("DISCOVER", "OK")}
        BY <2>6, <4>1
      <4> QED  BY <4>2
    <3>2. d.msg.type = "DISCOVER"
      BY <3>1, Kinds
    <3>3. Agree(ttl_max, client[c], Life(c), Wait(c), s, Use(c)', Of(c)')
      BY <2>3, <2>4, <2>7, <3>1, <3>2, EarlyAgrees DEF MovesEarly
    <3> QED  BY <1>2, <2>1, <2>2, <3>3 DEF Agreed
  <2>8. ASSUME Saying(c, Asking(s.addr))
        PROVE  \E d : /\ NoNews(Of(c), Of(c)' \ {d}) /\ d.up
                      /\ d.msg.type = "REQUEST" /\ d.msg.ipaddr = s.addr
    <3>1. PICK d : NoNews(Of(c), Of(c)' \ {d}) /\ d.up /\ d.msg \in Asking(s.addr)
      BY <2>6, <2>8
    <3>2. d.msg.type = "REQUEST" /\ d.msg.ipaddr = s.addr
      BY <3>1, Kinds DEF Asking
    <3> QED  BY <3>1, <3>2
  <2>9. CASE TakesOffer(c, s)
    <3>1. PICK d : /\ NoNews(Of(c), Of(c)' \ {d}) /\ d.up
                   /\ d.msg.type = "REQUEST" /\ d.msg.ipaddr = s.addr
      BY <2>8, <2>9 DEF TakesOffer
    <3>2. PICK o \in Offers(Of(c)) : s.addr = o.msg.ipaddr
      BY <2>9 DEF TakesOffer
    <3>3. Early(cl[c]) /\ s.stat = "wait_ack1"
      BY <2>9 DEF TakesOffer
    <3>4. Agree(ttl_max, client[c], Life(c), Wait(c), s, Use(c)', Of(c)')
      BY <2>3, <2>4, <3>1, <3>2, <3>3, OfferTakenAgrees
    <3> QED  BY <1>2, <2>1, <2>2, <3>4 DEF Agreed
  <2>10. CASE MovesOn(c, n, s)
    <3>1. PICK d : /\ NoNews(Of(c), Of(c)' \ {d}) /\ d.up
                   /\ d.msg.type = "REQUEST" /\ d.msg.ipaddr = s.addr
      BY <2>8, <2>10 DEF MovesOn
    <3>2. /\ ~ Early(cl[c]) /\ ~ Early(s)
          /\ s.addr = cl[c].addr \/ \E o \in Naming(Of(c)) : s.addr = o.msg.ipaddr
          /\ InUse(s) => \/ s.ttl = ttl_max /\ Acks(Of(c)) # {}
                         \/ InUse(cl[c]) /\ (s.ttl = 0 \/ s.ttl - s.alarm_flag = cl[c].ttl - n)
      BY <2>10 DEF MovesOn
    <3>3. /\ s.ttl \in Int /\ s.alarm_flag \in Int /\ 0 <= s.alarm_flag
          /\ cl[c].ttl \in Int /\ cl[c].alarm_flag \in Int
      BY <1>0, <2>1 DEF Counted
    <3>4. s.ttl = 0 => Use(c)' <= Delay
      <4>1. PICK k \in {0, 1} : Use(c)' = s.ttl - (s.alarm_flag + k)
        BY <2>1 DEF Use, ClientLag
      <4>2. Delay \in Int /\ 0 <= Delay
        BY Constants
      <4> HIDE DEF Use
      <4> QED  BY <3>3, <4>1, <4>2
    <3>5. s.ttl - s.alarm_flag = cl[c].ttl - n => Use(c)' = Use(c)
      <4>1. CASE due' = due /\ n = cl[c].alarm_flag
        <5>1. PICK k \in {0, 1} : /\ Use(c)' = s.ttl - (s.alarm_flag + k)
                                  /\ Use(c) = cl[c].ttl - (cl[c].alarm_flag + k)
          BY <2>1, <4>1 DEF Use, ClientLag
        <5> HIDE DEF Use
        <5> QED  BY <3>3, <4>1, <5>1
      <4>2. CASE c \in due /\ due' = due \ {c} /\ n = cl[c].alarm_flag + 1
        <5>1. c \in due /\ c \notin due'
          BY <4>2
        <5>2. /\ Use(c)' = s.ttl - (s.alarm_flag + 0)
              /\ Use(c) = cl[c].ttl - (cl[c].alarm_flag + 1)
          BY <2>1, <5>1 DEF Use, ClientLag
        <5> QED  BY <3>3, <4>2, <5>2
      <4> QED  BY <4>1, <4>2
    <3>6. InUse(s) /\ Use(c)' > Delay =>
             \/ InUse(cl[c]) /\ Use(c)' <= Use(c)
             \/ Use(c)' <= ttl_max /\ Acks(Of(c)) # {}
      <4>1. Delay \in Int
        BY Constants
      <4> QED  BY <2>3, <3>2, <3>4, <3>5, <4>1
    <3>7. Agree(ttl_max, client[c], Life(c), Wait(c), s, Use(c)', Of(c)')
      BY <2>3, <2>4, <3>1, <3>2, <3>6, GoesOnAgrees
    <3> QED  BY <1>2, <2>1, <2>2, <3>7 DEF Agreed
  <2> QED  BY <2>5, <2>7, <2>9, <2>10
<1> QED  BY <1>1, <1>2

\* The timer of client c fires while its loop works.
LEMMA SignalAgreed ==
    ASSUME Contents, Contents', NEW c \in Client, NEW s, cl' = [cl EXCEPT ![c] = s],
           s.alarm_flag = cl[c].alarm_flag + 1, s.stat = cl[c].stat, s.ttl = cl[c].ttl,
           s.pc = cl[c].pc, s.addr = cl[c].addr, csent' = {},
           c \in due, due' = due \ {c}, ServerIdle, net' = net,
           NEW e \in Client, Agreed(e)
    PROVE  Agreed(e)'
<1>0. /\ Counted /\ Counted' /\ cl \in [Client -> Q!Process]
  BY Numbers, NumbersNext DEF Contents
<1>1. CASE e # c
  <2>1. Carry(net)
    BY DEF Carry, ServerIdle
  <2> QED  BY <1>0, <1>1, <2>1, OthersQuiet
<1>2. CASE e = c
  <2>1. cl'[c] = s
    BY <1>0
  <2>2. /\ ttl_max' = ttl_max /\ client'[c] = client[c]
        /\ Life(c)' = Life(c) /\ Wait(c)' = Wait(c)
    BY ServerSame
  <2>3. Use(c)' = Use(c)
    <3>1. cl[c].ttl \in Int /\ cl[c].alarm_flag \in Int
      BY <1>0 DEF Counted
    <3>2. c \in due /\ c \notin due'
      OBVIOUS
    <3>3. /\ Use(c)' = cl[c].ttl - (cl[c].alarm_flag + 1 + 0)
          /\ Use(c) = cl[c].ttl - (cl[c].alarm_flag + 1)
      BY <2>1, <3>2 DEF Use, ClientLag
    <3> QED  BY <3>1, <3>3
  <2>4. Of(c)' = Of(c)
    BY DEF Of
  <2>5. Agree(ttl_max, client[c], Life(c), Wait(c), cl[c], Use(c), Of(c))
    BY <1>2 DEF Agreed
  <2>6. Agree(ttl_max, client[c], Life(c), Wait(c), s, Use(c), Of(c))
    BY <2>5 DEF Agree, Order, OneAddr, Single, AckTime, DiscoverTime, OfferTime, UseTime,
                Early, InUse
  <2> QED  BY <1>2, <2>1, <2>2, <2>3, <2>4, <2>6 DEF Agreed
<1> QED  BY <1>1, <1>2

(***************************************************************************)
(* The whole: Contents and Joint are inductive.                            *)
(***************************************************************************)
LEMMA InitContents == Init => Contents /\ Joint
<1> SUFFICES ASSUME Init PROVE Contents /\ Joint
  OBVIOUS
<1>1. P!Init /\ Q!Init
  BY ServerActions DEF Init, C!Init, Q!Init, C!NewProcess, Q!NewProcess
<1>2. P!IInv
  BY <1>1, Assumed, P!InitIInv
<1>3. cl \in [Client -> Q!Process]
  BY <1>1, Assumed, Q!InitTypes
<1>4. ttl_max = 0 /\ net = {} /\ due = {} /\ sent = {}
  BY <1>1 DEF Init, P!Init
<1>5. ASSUME NEW c \in Client
      PROVE  /\ client[c].stat = "none"
             /\ cl[c].stat = "init" /\ cl[c].ttl = 0 /\ cl[c].pc = "start"
  BY <1>1 DEF P!Init, P!NoClient, Q!Init, Q!NewProcess
<1>6. \A c \in Client : GoodProcess(cl[c], ttl_max) /\ client[c].stat # "init"
  BY <1>3, <1>4, <1>5 DEF GoodProcess, Early
<1>7. Unconfigured
  BY <1>4, <1>5 DEF Unconfigured, Early
<1>8. Contents
  BY <1>2, <1>3, <1>4, <1>6, <1>7 DEF Contents
<1>9. Joint
  BY <1>4, Constants DEF Joint
<1> QED  BY <1>8, <1>9

LEMMA NextContents == Contents /\ [Next]_vars => Contents'
<1> SUFFICES ASSUME Contents, [Next]_vars PROVE Contents'
  OBVIOUS
<1>1. due \subseteq Client \cup {Server}
  BY DEF Contents
<1>2. CASE Deliver
  <2>1. PICK d \in net : /\ ToServer(d) \/ ToClient(d)
                         /\ \E rest \in Delivered(d) : Carry(rest)
    BY <1>2 DEF Deliver
  <2>2. PICK rest \in SUBSET net : Carry(rest)
    BY <2>1 DEF Delivered
  <2>3. due' \subseteq Client \cup {Server}
    BY <1>1, <1>2 DEF Deliver
  <2>4. CASE ToServer(d)
    BY <2>2, <2>3, <2>4, UpGood, ServerContents DEF ToServer
  <2>5. CASE ToClient(d)
    BY <2>2, <2>3, <2>5, HeardPasses, PassContents DEF ToClient
  <2> QED  BY <2>1, <2>4, <2>5
<1>3. CASE Tick
  BY <1>3, TickContents
<1>4. CASE ServerTimer
  <2>1. CASE S!InterruptedByAlarm
    BY <1>1, <1>4, <2>1, ServerActions, AlarmGood, ServerContents DEF ServerTimer
  <2>2. CASE S!sigalrm_handler
    BY <1>4, <2>2, RaisedContents DEF ServerTimer
  <2> QED  BY <1>4, <2>1, <2>2 DEF ServerTimer
<1>5. CASE ServerStep
  <2>1. CASE S!read_config
    BY <1>5, <2>1, ConfigContents DEF ServerStep
  <2>2. CASE S!Timers
    <3>1. ServerStepGood
      BY <2>2, ServerActions, TimeoutGood, ScannedGood
    <3> QED  BY <1>1, <1>5, <3>1, ServerContents DEF ServerStep
  <2> QED  BY <1>5, <2>1, <2>2 DEF ServerStep
<1>6. ASSUME NEW c \in Client, ClientTimer(c) PROVE Contents'
  <2>1. due' \subseteq Client \cup {Server}
    BY <1>1, <1>6 DEF ClientTimer
  <2>2. CASE C!InterruptedByAlarm(c)
    BY <1>6, <2>1, <2>2, AlarmPasses, PassContents DEF ClientTimer
  <2>3. CASE C!sigalrm_handler(c)
    BY <1>6, <2>3, SignalContents DEF ClientTimer
  <2> QED  BY <1>6, <2>2, <2>3 DEF ClientTimer
<1>7. ASSUME NEW c \in Client, ClientStep(c) PROVE Contents'
  <2>1. cl[c].pc # "exit" /\ \E s : Passed(c, cl[c].alarm_flag, s)
    BY <1>7, StartPasses, EndingPasses DEF ClientStep
  <2> QED  BY <1>1, <1>7, <2>1, PassContents DEF ClientStep
<1>8. CASE UNCHANGED vars
  <2>1. P!IInv'
    BY <1>8, Assumed, P!NextIInv DEF Contents, vars, svars, P!vars
  <2> QED  BY <1>8, <2>1 DEF Contents, Unconfigured, vars, svars
<1> QED  BY <1>2, <1>3, <1>4, <1>5, <1>6, <1>7, <1>8 DEF Next

LEMMA NextJoint ==
    ASSUME Punctual, Contents, Contents', Joint, [Next]_vars
    PROVE  Joint'
<1> SUFFICES ASSUME NEW e \in Client, cl'[e].pc # "exit", ttl_max' > Delay
             PROVE  Agreed(e)'
  BY DEF Joint
<1>1. ASSUME ttl_max' = ttl_max, cl[e].pc # "exit" PROVE Agreed(e) /\ ttl_max > Delay
  BY <1>1 DEF Joint
<1>2. ASSUME NEW rest \in SUBSET net, Carry(rest), NEW d \in net, ToServer(d), due' = due
      PROVE  Agreed(e)'
  <2>1. ClientsIdle /\ d.up /\ cl' = cl
    BY <1>2 DEF ToServer, ClientsIdle
  <2>2. ttl_max' = ttl_max
    BY <1>2, UpGood DEF ServerStepGood
  <2>3. Agreed(e) /\ cl[e].pc # "exit"
    BY <1>1, <2>1, <2>2
  <2>4. d.client \in Client /\ d.msg \in Message /\ ClientSays(d.msg, ttl_max)
    BY <2>1 DEF Contents, GoodPacket, Packet
  <2>5. d \in Of(d.client)
    BY DEF Of
  <2>6. CASE P!RecvKnown(d.client, d.msg)
    BY <1>2, <2>1, <2>2, <2>3, <2>4, <2>5, <2>6, KnownAgreed
  <2>7. CASE P!RecvNew(d.client, d.msg)
    <3>1. d.msg.type = "DISCOVER"
      BY <2>7 DEF P!RecvNew
    <3>2. d.msg = Bare("DISCOVER", "OK")
      BY <2>4, <3>1, Kinds DEF ClientSays
    <3> QED  BY <1>2, <2>1, <2>2, <2>3, <2>4, <2>5, <2>7, <3>1, <3>2, NewAgreed
  <2>8. CASE P!RecvNoIp(d.client, d.msg) \/ P!RecvStranger(d.client, d.msg)
    BY <1>2, <2>1, <2>2, <2>3, <2>4, <2>8, OthersAgreed
  <2> QED  BY <1>2, <2>6, <2>7, <2>8, ServerActions DEF ToServer
<1>3. ASSUME NEW rest \in SUBSET net, Carry(rest), NEW c \in Client, NEW n, NEW s,
             Passed(c, n, s), cl[c].pc # "exit", ServerIdle,
             \/ due' = due /\ n = cl[c].alarm_flag
             \/ c \in due /\ due' = due \ {c} /\ n = cl[c].alarm_flag + 1
      PROVE  Agreed(e)'
  <2>1. ttl_max' = ttl_max
    BY <1>3 DEF ServerIdle, svars
  <2>2. cl[e].pc # "exit"
    BY <1>3 DEF Passed, Contents
  <2>3. Agreed(e)
    BY <1>1, <2>1, <2>2
  <2> QED  BY <1>3, <2>3, PassAgreed
<1>4. CASE Deliver
  <2>1. PICK d \in net : /\ ToServer(d) \/ ToClient(d)
                         /\ \E rest \in Delivered(d) : Carry(rest)
    BY <1>4 DEF Deliver
  <2>2. PICK rest \in SUBSET net : Carry(rest)
    BY <2>1 DEF Delivered
  <2>3. due' = due
    BY <1>4 DEF Deliver
  <2>4. CASE ToServer(d)
    BY <1>2, <2>2, <2>3, <2>4
  <2>5. CASE ToClient(d)
    <3>1. d.client \in Client /\ cl[d.client].pc # "exit"
      BY <2>5, HeardPasses
    <3>2. PICK s : Passed(d.client, cl[d.client].alarm_flag, s)
      BY <2>5, HeardPasses
    <3>3. ServerIdle
      BY <2>5 DEF ToClient
    <3> QED  BY <1>3, <2>2, <2>3, <3>1, <3>2, <3>3
  <2> QED  BY <2>1, <2>4, <2>5
<1>5. CASE Tick
  BY <1>1, <1>5, TickAgreed DEF Tick, ServerIdle, ClientsIdle, svars
<1>6. CASE ServerTimer
  <2>1. ClientsIdle /\ Carry(net) /\ Server \in due /\ due' = due \ {Server} /\ cl' = cl
    BY <1>6 DEF ServerTimer, ClientsIdle
  <2>2. CASE S!InterruptedByAlarm
    <3>1. P!InterruptedByAlarm
      BY <2>2, ServerActions
    <3>2. ttl_max' = ttl_max
      BY <3>1, AlarmGood DEF ServerStepGood
    <3> QED  BY <1>1, <2>1, <3>1, <3>2, AlarmAgreed
  <2>3. CASE S!sigalrm_handler
    BY <1>1, <2>1, <2>3, RaisedContents, RaisedAgreed
  <2> QED  BY <1>6, <2>2, <2>3 DEF ServerTimer
<1>7. CASE ServerStep
  <2>1. ClientsIdle /\ Carry(net) /\ due' = due /\ cl' = cl
    BY <1>7 DEF ServerStep, ClientsIdle
  <2>2. CASE S!read_config
    BY <2>1, <2>2, ConfigAgreed
  <2>3. CASE S!Timers
    <3>1. ServerStepGood
      BY <2>3, ServerActions, TimeoutGood, ScannedGood
    <3>2. ttl_max' = ttl_max
      BY <3>1 DEF ServerStepGood
    <3>3. Agreed(e) /\ ttl_max > Delay
      BY <1>1, <2>1, <3>2
    <3> QED  BY <2>1, <2>3, <3>2, <3>3, ServerActions, TimeoutAgreed, ScannedAgreed
  <2> QED  BY <1>7, <2>2, <2>3 DEF ServerStep
<1>8. ASSUME NEW c \in Client, ClientTimer(c) PROVE Agreed(e)'
  <2>1. Carry(net) /\ ServerIdle /\ c \in due /\ due' = due \ {c}
    BY <1>8 DEF ClientTimer
  <2>2. CASE C!InterruptedByAlarm(c)
    <3>1. cl[c].pc # "exit"
      BY <2>2, AlarmPasses
    <3>2. PICK s : Passed(c, cl[c].alarm_flag + 1, s)
      BY <2>2, AlarmPasses
    <3> QED  BY <1>3, <2>1, <3>1, <3>2
  <2>3. CASE C!sigalrm_handler(c)
    <3>1. /\ net' = net /\ UNCHANGED svars /\ cl[c].pc # "exit"
          /\ \E s : /\ cl' = [cl EXCEPT ![c] = s] /\ s.alarm_flag = cl[c].alarm_flag + 1
                    /\ s.stat = cl[c].stat /\ s.ttl = cl[c].ttl /\ s.pc = cl[c].pc
                    /\ s.addr = cl[c].addr
      BY <2>1, <2>3, SignalContents
    <3>2. PICK s : /\ cl' = [cl EXCEPT ![c] = s] /\ s.alarm_flag = cl[c].alarm_flag + 1
                   /\ s.stat = cl[c].stat /\ s.ttl = cl[c].ttl /\ s.pc = cl[c].pc
                   /\ s.addr = cl[c].addr
      BY <3>1
    <3>3. csent' = {}
      BY <2>3 DEF C!sigalrm_handler, C!Signal, C!SendNothing
    <3>4. cl[e].pc # "exit"
      BY <3>1, <3>2 DEF Contents
    <3>5. Agreed(e)
      BY <1>1, <3>1, <3>4 DEF svars
    <3> QED  BY <2>1, <3>1, <3>2, <3>3, <3>5, SignalAgreed
  <2> QED  BY <1>8, <2>2, <2>3 DEF ClientTimer
<1>9. ASSUME NEW c \in Client, ClientStep(c) PROVE Agreed(e)'
  <2>1. cl[c].pc # "exit"
    BY <1>9, StartPasses, EndingPasses DEF ClientStep
  <2>2. PICK s : Passed(c, cl[c].alarm_flag, s)
    BY <1>9, StartPasses, EndingPasses DEF ClientStep
  <2>3. Carry(net) /\ ServerIdle /\ due' = due
    BY <1>9 DEF ClientStep
  <2> QED  BY <1>3, <2>1, <2>2, <2>3
<1>10. CASE UNCHANGED vars
  <2>1. ttl_max' = ttl_max /\ client' = client /\ cl' = cl /\ net' = net /\ due' = due
        /\ alarm_flag' = alarm_flag
    BY <1>10 DEF vars, svars
  <2>2. /\ Life(e)' = Life(e) /\ Wait(e)' = Wait(e) /\ Use(e)' = Use(e) /\ Of(e)' = Of(e)
    BY <2>1 DEF Life, Wait, Use, Of, ServerLag, ClientLag
  <2> QED  BY <1>1, <2>1, <2>2 DEF Agreed
<1> QED  BY <1>4, <1>5, <1>6, <1>7, <1>8, <1>9, <1>10 DEF Next

(***************************************************************************)
(* The theorems.                                                           *)
(***************************************************************************)
LEMMA BackedNow == Contents /\ Joint => UseIsBacked
<1> SUFFICES ASSUME Contents, Joint, NEW c \in Client, C!Using(c), cl[c].ttl > Slack
             PROVE  /\ client[c].stat = "in_use" /\ client[c].addr = cl[c].addr
                    /\ client[c].ttl + Slack >= cl[c].ttl
  BY DEF UseIsBacked
<1>1. Counted
  BY Numbers
<1>2. Slack = Delay + MaxAlarm + 1
  BY Constants DEF Slack, Left
<1>3. /\ client[c].ttl \in Int /\ cl[c].ttl \in Int /\ ttl_max \in Int /\ cl[c].ttl <= ttl_max
      /\ ServerLag \in Int /\ 0 <= ServerLag
      /\ ClientLag(c) \in Int /\ 0 <= ClientLag(c) /\ ClientLag(c) <= MaxAlarm + 1
  BY <1>1 DEF Counted
<1>4. Life(c) = client[c].ttl - ServerLag /\ Use(c) = cl[c].ttl - ClientLag(c)
  BY DEF Life, Use
<1>5. Use(c) > Delay /\ ttl_max > Delay
  BY <1>2, <1>3, <1>4, Constants
<1>6. InUse(cl[c]) /\ ~ Early(cl[c]) /\ cl[c].pc # "exit"
  BY DEF C!Using, C!UsingStat, InUse, Early
<1>7. Agreed(c)
  BY <1>5, <1>6 DEF Joint
<1>8. client[c].stat = "in_use" /\ Life(c) + Delay >= Use(c)
  BY <1>5, <1>6, <1>7 DEF Agreed, Agree, UseTime
<1>9. client[c].addr = cl[c].addr
  BY <1>6, <1>7, <1>8 DEF Agreed, Agree, OneAddr
<1>10. client[c].ttl + Slack >= cl[c].ttl
  BY <1>2, <1>3, <1>4, <1>8, Constants
<1> QED  BY <1>8, <1>9, <1>10

LEMMA OverlapNow == Contents /\ UseIsBacked => OverlapBounded
<1> SUFFICES ASSUME Contents, UseIsBacked, NEW c \in Client, NEW d \in Client, c # d,
                    C!Using(c), C!Using(d), cl[c].addr = cl[d].addr,
                    ~ (cl[c].ttl <= Slack), ~ (cl[d].ttl <= Slack)
             PROVE  FALSE
  BY DEF OverlapBounded
<1>1. cl[c].ttl > Slack /\ cl[d].ttl > Slack
  BY Numbers, Constants DEF Counted, Slack, Left
<1>2. /\ client[c].stat = "in_use" /\ client[d].stat = "in_use"
      /\ client[c].addr = client[d].addr
  BY <1>1 DEF UseIsBacked
<1> QED  BY <1>2 DEF Contents, P!IInv, P!PoolPartition, P!HeldOnce, P!Live

LEMMA Inductive ==
    ASSUME Punctual
    PROVE  Spec => [](Contents /\ Joint)
<1>1. Contents /\ Joint /\ [Next]_vars => (Contents /\ Joint)'
  BY NextContents, NextJoint
<1> QED  BY <1>1, InitContents, PTL DEF Spec

\* The address a client uses is leased to it, for as long as it will use it but
\* for Slack seconds (recv_ack and start_using of the client; send_ack_ok,
\* reset_ttl, release_client and the timers of the server).
THEOREM UseBacked ==
    ASSUME Punctual
    PROVE  Spec => []UseIsBacked
BY Inductive, BackedNow, PTL

\* Two clients use one address for no longer than Slack seconds.
THEOREM OverlapsBounded ==
    ASSUME Punctual
    PROVE  Spec => []OverlapBounded
BY Inductive, BackedNow, OverlapNow, PTL

(***************************************************************************)
(* Types.                                                                  *)
(***************************************************************************)
SentTyped == csent \in SUBSET [from : Client, msg : Message]

LEMMA NextSent ==
    ASSUME Contents, [Next]_vars, SentTyped
    PROVE  SentTyped'
<1>1. CASE csent' \in {{}, csent}
  BY <1>1 DEF SentTyped
<1>2. ASSUME NEW c \in Client,
             \/ Q!Start(c) \/ Q!sigalrm_handler(c) \/ Q!Interrupts(c)
             \/ \E m \in Message : Q!RecvMessage(c, m)
      PROVE  SentTyped'
  <2>1. Q!SentBy(c)
    BY <1>2, Assumed, SameMessages, Q!StepTypes DEF Contents, Q!Signals
  <2> QED  BY <2>1, SameMessages DEF Q!SentBy, SentTyped
<1>3. ASSUME NEW d \in net, ToClient(d) PROVE SentTyped'
  <2>1. d \in Packet /\ C!RecvMessage(d.client, d.msg)
    BY <1>3 DEF Contents, GoodPacket, ToClient
  <2>2. d.client \in Client /\ d.msg \in Message /\ Q!RecvMessage(d.client, d.msg)
    BY <2>1, ClientActions DEF Packet
  <2> QED  BY <1>2, <2>2
<1>4. CASE Deliver
  BY <1>1, <1>3, <1>4 DEF Deliver, ToServer, ClientsIdle
<1>5. ASSUME NEW c \in Client, ClientTimer(c) \/ ClientStep(c) PROVE SentTyped'
  BY <1>2, <1>5, ClientActions DEF ClientTimer, ClientStep, Q!Interrupts
<1> QED  BY <1>1, <1>4, <1>5
         DEF Next, Tick, ServerTimer, ServerStep, ClientsIdle, vars

LEMMA TypesNow == Contents /\ SentTyped => TypeOK
<1> SUFFICES ASSUME Contents, SentTyped PROVE TypeOK
  OBVIOUS
<1>1. S!TypeOK
  <2>1. P!TypeOK
    BY DEF Contents, P!IInv
  <2> QED  BY <2>1, ZenonT(30)
           DEF P!TypeOK, S!TypeOK, P!Location, S!Location, P!ClientRec, S!ClientRec,
               P!NoClient, S!NoClient, P!Stat, S!Stat, P!Ttl, S!Ttl, P!Message, S!Message,
               P!DhcpType, S!DhcpType, P!DhcpCode, S!DhcpCode, P!Netmask, S!Netmask
<1>2. cl \in [Client -> C!Process]
  BY ZenonT(30) DEF Contents, Q!Process, C!Process, Q!Stat, C!Stat, Q!Ttl, C!Ttl, Q!Netmask, C!Netmask
<1>3. C!Message = Message
  BY DEF C!Message, Message, C!DhcpType, DhcpType, C!DhcpCode, DhcpCode, C!Netmask, Netmask,
         C!Ttl, Ttl
<1>4. C!TypeOK
  BY <1>2, <1>3 DEF C!TypeOK, SentTyped
<1> QED  BY <1>1, <1>4 DEF TypeOK, Contents, GoodPacket

\* The variables of the whole keep their types, whatever the network does.
THEOREM TypeCorrect == Spec => []TypeOK
<1>1. Init => Contents /\ SentTyped
  BY InitContents DEF Init, C!Init, SentTyped
<1>2. Contents /\ SentTyped /\ [Next]_vars => (Contents /\ SentTyped)'
  BY NextContents, NextSent
<1> QED  BY <1>1, <1>2, TypesNow, PTL DEF Spec
(***************************************************************************)
(* What the server promises by itself, it keeps in the whole system.       *)
(***************************************************************************)
\* A step of the whole is one of the server, or none that its records notice.
LEMMA ServerSteps == Contents /\ [Next]_vars => P!Next \/ client' = client
<1> SUFFICES ASSUME Contents, [Next]_vars PROVE P!Next \/ client' = client
  OBVIOUS
<1>1. ASSUME NEW d \in net, ToServer(d) PROVE P!Next
  <2>1. d.client \in Client /\ d.msg \in Message
    BY DEF Contents, GoodPacket, Packet
  <2>2. \/ P!RecvKnown(d.client, d.msg) \/ P!RecvNew(d.client, d.msg)
        \/ P!RecvNoIp(d.client, d.msg) \/ P!RecvStranger(d.client, d.msg)
    BY <1>1, ServerActions DEF ToServer
  <2>3. P!Receive(d.client)
    BY <2>1, <2>2 DEF P!Receive
  <2> QED  BY <2>1, <2>3 DEF P!Next
<1>2. CASE Deliver
  BY <1>1, <1>2 DEF Deliver, ToClient, ServerIdle, svars
<1>3. CASE ServerTimer
  BY <1>3, ServerActions DEF ServerTimer, P!Next, P!Signals, P!sigalrm_handler
<1>4. CASE ServerStep
  <2>1. P!read_config \/ P!Timers
    BY <1>4, ServerActions DEF ServerStep, P!Timers
  <2> QED  BY <2>1 DEF P!Next
<1> QED  BY <1>2, <1>3, <1>4 DEF Next, Tick, ClientTimer, ClientStep, ServerIdle, svars, vars

LEMMA SameLeases ==
    /\ S!Elements(Config) = P!Elements(Config)
    /\ \A a : S!HolderOf(a) = P!HolderOf(a) /\ S!LeasedNow(a) = P!LeasedNow(a)
    /\ P!Leases!Next => S!Leases!Next
<1> USE DEF S!Elements, P!Elements, S!HolderOf, P!HolderOf, S!LeasedNow, P!LeasedNow,
        S!Live, P!Live
<1>1. P!Leases!Next => S!Leases!Next
  BY Zenon DEF S!Leases!Next, P!Leases!Next, S!Leases!Promise, P!Leases!Promise, S!Leases!Lease,
         P!Leases!Lease, S!Leases!Return, P!Leases!Return, S!Leases!HasNone, P!Leases!HasNone
<1> QED  BY <1>1

LEMMA LeasesFollow ==
    Contents /\ [Next]_vars
    => [S!Leases!Next]_<<[a \in S!Elements(Config) |-> S!HolderOf(a)],
                         [a \in S!Elements(Config) |-> S!LeasedNow(a)]>>
<1> SUFFICES ASSUME Contents, [Next]_vars
             PROVE  [S!Leases!Next]_<<[a \in S!Elements(Config) |-> S!HolderOf(a)],
                                      [a \in S!Elements(Config) |-> S!LeasedNow(a)]>>
  OBVIOUS
<1>1. CASE P!Next
  <2>1. [P!Leases!Next]_<<[a \in P!Elements(Config) |-> P!HolderOf(a)],
                          [a \in P!Elements(Config) |-> P!LeasedNow(a)]>>
    BY <1>1, P!NextImplements, Assumed DEF Contents
  <2>2. CASE P!Leases!Next
    BY <2>2, SameLeases
  <2>3. CASE UNCHANGED <<[a \in P!Elements(Config) |-> P!HolderOf(a)],
                         [a \in P!Elements(Config) |-> P!LeasedNow(a)]>>
    BY <2>3 DEF S!Elements, P!Elements, S!HolderOf, P!HolderOf, S!LeasedNow, P!LeasedNow,
                S!Live, P!Live
  <2> QED  BY <2>1, <2>2, <2>3
<1>2. CASE client' = client
  BY <1>2 DEF S!HolderOf, S!LeasedNow, S!Live
<1> QED  BY <1>1, <1>2, ServerSteps

\* Seen from one address the whole system is AddressLease, Punctual or not: whatever
\* the network loses, delays or delivers twice, an address passes from one client
\* to another through the pool only (create_client, send_ack_ok, change_state).
THEOREM SystemImplementsLease == Spec => S!ImplementsLease
<1>1. Init => S!Leases!Init
  <2> SUFFICES ASSUME Init PROVE S!Leases!Init
    OBVIOUS
  <2>1. client = [e \in Client |-> S!NoClient]
    BY DEF Init, S!Init
  <2>2. S!Live(client) = {}
    BY <2>1 DEF S!Live, S!NoClient
  <2> QED  BY <2>2 DEF S!Leases!Init, S!HolderOf, S!LeasedNow
<1> QED  BY <1>1, InitContents, NextContents, LeasesFollow, PTL
         DEF Spec, S!ImplementsLease, S!Leases!Spec

=============================================================================
