-------------------------- MODULE Itinerary_proofs --------------------------
(***************************************************************************)
(* Proofs about Itinerary, for any places, any edges and any trip the      *)
(* optimizer may answer, of any length: the nights booked, the directions  *)
(* asked, and then the days, whose items are followed from the legs of a   *)
(* day to the sequence it is answered with.                                *)
(***************************************************************************)
EXTENDS Itinerary, WellFoundedInduction, SequenceTheorems, FiniteSetTheorems,
        TLAPS

\* A set of naturals has a least element, and a bounded one a greatest.
LEMMA LeastExists ==
    ASSUME NEW T \in SUBSET Nat, T # {}
    PROVE  \E x \in T : \A y \in T : x <= y
<1>1. IsWellFoundedOn(OpToRel(<, Nat), Nat)
  BY NatLessThanWellFounded
<1>2. PICK x \in T : \A y \in T : <<y, x>> \notin OpToRel(<, Nat)
  BY <1>1, WFMin
<1>3. \A y \in T : <<y, x>> \in OpToRel(<, Nat) <=> y < x
  BY DEF OpToRel
<1>4. \A y \in T : ~ (y < x)
  BY <1>2, <1>3, Zenon
<1> QED BY <1>4

LEMMA GreatestExists ==
    ASSUME NEW n \in Nat, NEW T \in SUBSET (0..n), T # {}
    PROVE  \E x \in T : \A y \in T : y <= x
<1> DEFINE U == {n - y : y \in T}
<1>1. /\ U # {}
      /\ \A y \in T : n - y \in Nat
  <2>1. PICK y \in T : TRUE
    OBVIOUS
  <2>2. n - y \in U
    BY <2>1
  <2>3. \A t \in T : t \in 0..n
    OBVIOUS
  <2> QED BY <2>2, <2>3
<1>2. PICK u \in U : \A v \in U : u <= v
  <2>1. U \in SUBSET Nat
    BY <1>1
  <2> QED BY <1>1, <2>1, LeastExists
<1>3. PICK x \in T : u = n - x
  BY <1>2
<1>4. \A y \in T : n - x <= n - y
  BY <1>2, <1>3
<1> QED BY <1>4

\* Days of a trip: a sequence of records with a hotel.
IsTrip(p) == Len(p) \in Nat \ {0} /\ DOMAIN p = 1..Len(p)

\* Every day lies in a maximal run of days with one hotel.
LEMMA DayInRun ==
    ASSUME NEW p, IsTrip(p), NEW i \in DOMAIN p
    PROVE  \E r \in HotelRuns(p) :
              r[1] <= i /\ i <= r[2] /\ p[r[1]].hotel = p[i].hotel
<1> DEFINE n == Len(p)
           S == {s \in 1..i : \A j \in s..i : p[j].hotel = p[i].hotel}
           Z == {z \in i..n : \A j \in i..z : p[j].hotel = p[i].hotel}
<1>0. n \in Nat /\ DOMAIN p = 1..n /\ i \in 1..n
  BY DEF IsTrip
<1>1. i \in S /\ S \in SUBSET Nat
  BY <1>0
<1>2. PICK s \in S : \A y \in S : s <= y
  BY <1>1, LeastExists
<1>3. i \in Z /\ Z \in SUBSET (0..n)
  BY <1>0
<1>4. PICK z \in Z : \A y \in Z : y <= z
  BY <1>0, <1>3, GreatestExists
<1>5. s \in 1..n /\ z \in 1..n /\ s <= i /\ i <= z
  BY <1>0, <1>2, <1>4
<1> HIDE DEF n
<1>6. \A j \in s..z : p[j].hotel = p[i].hotel
  <2> SUFFICES ASSUME NEW j \in s..z PROVE p[j].hotel = p[i].hotel
    OBVIOUS
  <2>1. CASE j <= i
    <3>1. j \in s..i
      BY <2>1, <1>5, <1>0
    <3> QED BY <3>1, <1>2
  <2>2. CASE i <= j
    <3>1. j \in i..z
      BY <2>2, <1>5, <1>0
    <3> QED BY <3>1, <1>4
  <2> QED BY <2>1, <2>2, <1>0, <1>5
<1>7. s = 1 \/ p[s - 1].hotel # p[s].hotel
  <2> SUFFICES ASSUME s # 1, p[s - 1].hotel = p[s].hotel PROVE FALSE
    OBVIOUS
  <2>1. p[s].hotel = p[i].hotel
    BY <1>6, <1>5, <1>0
  <2>2. s - 1 \in 1..i
    BY <1>5, <1>0
  <2>3. \A j \in (s - 1)..i : j = s - 1 \/ j \in s..i
    BY <1>5, <1>0
  <2>4. s - 1 \in S
    BY <2>1, <2>2, <2>3, <1>2
  <2> QED BY <2>4, <1>2, <1>5, <1>0
<1>8. z = n \/ p[z + 1].hotel # p[z].hotel
  <2> SUFFICES ASSUME z # n, p[z + 1].hotel = p[z].hotel PROVE FALSE
    OBVIOUS
  <2>1. p[z].hotel = p[i].hotel
    BY <1>6, <1>5, <1>0
  <2>2. z + 1 \in i..n
    BY <1>5, <1>0
  <2>3. \A j \in i..(z + 1) : j = z + 1 \/ j \in i..z
    BY <1>5, <1>0
  <2>4. z + 1 \in Z
    BY <2>1, <2>2, <2>3, <1>4
  <2> QED BY <2>4, <1>4, <1>5, <1>0
<1>9. p[s].hotel = p[i].hotel
  BY <1>6, <1>5, <1>0
<1>10. <<s, z>> \in HotelRuns(p)
  <2>1. <<s, z>> \in (DOMAIN p) \X (DOMAIN p) /\ <<s, z>>[1] = s /\ <<s, z>>[2] = z
    BY <1>0, <1>5
  <2>2. s <= z /\ \A j \in s..z : p[j].hotel = p[s].hotel
    BY <1>5, <1>6, <1>9, <1>0
  <2> QED BY <2>1, <2>2, <1>7, <1>8 DEF HotelRuns, n
<1> QED BY <1>5, <1>9, <1>10

\* Two maximal runs that share a day are one.
LEMMA RunOfDay ==
    ASSUME NEW p, IsTrip(p), NEW i \in DOMAIN p,
           NEW r \in HotelRuns(p), r[1] <= i, i <= r[2],
           NEW t \in HotelRuns(p), t[1] <= i, i <= t[2]
    PROVE  r = t
<1> DEFINE n == Len(p)
<1>0. n \in Nat /\ DOMAIN p = 1..n /\ i \in 1..n
  BY DEF IsTrip
<1>1. ASSUME NEW a \in HotelRuns(p), a[1] <= i, i <= a[2]
      PROVE  /\ a[1] \in 1..n /\ a[2] \in 1..n /\ a = <<a[1], a[2]>>
             /\ \A j \in a[1]..a[2] : p[j].hotel = p[i].hotel
             /\ a[1] = 1 \/ p[a[1] - 1].hotel # p[a[1]].hotel
             /\ a[2] = n \/ p[a[2] + 1].hotel # p[a[2]].hotel
  <2>1. /\ a \in (DOMAIN p) \X (DOMAIN p)
        /\ \A j \in a[1]..a[2] : p[j].hotel = p[a[1]].hotel
        /\ a[1] = 1 \/ p[a[1] - 1].hotel # p[a[1]].hotel
        /\ a[2] = Len(p) \/ p[a[2] + 1].hotel # p[a[2]].hotel
    BY DEF HotelRuns
  <2>2. i \in a[1]..a[2] /\ a[1] \in 1..n /\ a[2] \in 1..n
    BY <2>1, <1>0, <1>1
  <2> QED BY <2>1, <2>2, <1>0
<1>2. ASSUME NEW a \in HotelRuns(p), a[1] <= i, i <= a[2],
             NEW b \in HotelRuns(p), b[1] <= i, i <= b[2]
      PROVE  ~ (a[1] < b[1]) /\ ~ (b[2] < a[2])
  <2>1. ASSUME a[1] < b[1] PROVE FALSE
    <3>1. b[1] - 1 \in a[1]..a[2] /\ b[1] \in a[1]..a[2] /\ b[1] # 1
      BY <2>1, <1>1, <1>2, <1>0
    <3> QED BY <3>1, <1>1, <1>2
  <2>2. ASSUME b[2] < a[2] PROVE FALSE
    <3>1. b[2] + 1 \in a[1]..a[2] /\ b[2] \in a[1]..a[2] /\ b[2] # n
      BY <2>2, <1>1, <1>2, <1>0
    <3> QED BY <3>1, <1>1, <1>2
  <2> QED BY <2>1, <2>2
<1>3. r[1] = t[1] /\ r[2] = t[2]
  BY <1>2, <1>1, <1>0
<1> QED BY <1>3, <1>1

NightHotel(p, night) == p[IF night = 0 THEN 1 ELSE night].hotel

\* The day after which a night is spent, or the first day for the night before.
DayOf(night) == IF night = 0 THEN 1 ELSE night

\* A booking is in force on a night exactly when its run holds the night's day.
LEMMA BookingOfRun ==
    ASSUME NEW p, IsTrip(p), NEW r \in HotelRuns(p), NEW night \in 0..Len(p)
    PROVE  LET b == Booking(r[1], r[2], p[r[1]].hotel) IN
           /\ b.checkIn <= night /\ night < b.checkOut
                 <=> r[1] <= DayOf(night) /\ DayOf(night) <= r[2]
           /\ b.hotel = p[r[1]].hotel
           /\ b.checkOut <= Len(p) + 1
<1> DEFINE b == Booking(r[1], r[2], p[r[1]].hotel)
<1>1. Len(p) \in Nat \ {0} /\ DOMAIN p = 1..Len(p)
  BY DEF IsTrip
<1>2. r \in (DOMAIN p) \X (DOMAIN p) /\ r[1] <= r[2]
  BY DEF HotelRuns
<1>3. r[1] \in 1..Len(p) /\ r[2] \in 1..Len(p)
  BY <1>1, <1>2
<1>4. /\ b.checkIn = IF r[1] = 1 THEN 0 ELSE r[1]
      /\ b.checkOut = r[2] + 1
      /\ b.hotel = p[r[1]].hotel
  BY DEF Booking
<1>5. b.checkOut <= Len(p) + 1
  BY <1>1, <1>3, <1>4
<1>6. b.checkIn <= night /\ night < b.checkOut
         <=> r[1] <= DayOf(night) /\ DayOf(night) <= r[2]
  BY <1>1, <1>2, <1>3, <1>4 DEF DayOf
<1> QED BY <1>4, <1>5, <1>6

\* The bookings of any trip cover each of its nights once.
LEMMA BookingsTile ==
    ASSUME NEW p, IsTrip(p)
    PROVE  LET B == BuildHotelBookingSegments(p) IN
           /\ \A night \in 0..Len(p) :
                 \E b \in B :
                     /\ b.hotel = NightHotel(p, night)
                     /\ b.checkIn <= night /\ night < b.checkOut
                     /\ \A c \in B :
                           c.checkIn <= night /\ night < c.checkOut => c = b
           /\ \A b \in B : b.checkOut <= Len(p) + 1
<1> DEFINE B == BuildHotelBookingSegments(p)
           Of(r) == Booking(r[1], r[2], p[r[1]].hotel)
<1>0. Len(p) \in Nat \ {0} /\ DOMAIN p = 1..Len(p)
  BY DEF IsTrip
<1>1. /\ \A r \in HotelRuns(p) : Of(r) \in B
      /\ \A b \in B : \E r \in HotelRuns(p) : b = Of(r)
  BY DEF BuildHotelBookingSegments
<1>2. ASSUME NEW night \in 0..Len(p), NEW r \in HotelRuns(p)
      PROVE  /\ Of(r).checkIn <= night /\ night < Of(r).checkOut
                   <=> r[1] <= DayOf(night) /\ DayOf(night) <= r[2]
             /\ Of(r).hotel = p[r[1]].hotel
             /\ Of(r).checkOut <= Len(p) + 1
  BY BookingOfRun
<1> HIDE DEF B, Of
<1>3. ASSUME NEW night \in 0..Len(p)
      PROVE  \E b \in B :
                 /\ b.hotel = NightHotel(p, night)
                 /\ b.checkIn <= night /\ night < b.checkOut
                 /\ \A c \in B : c.checkIn <= night /\ night < c.checkOut => c = b
  <2>1. DayOf(night) \in DOMAIN p
    BY <1>0 DEF DayOf
  <2>2. PICK r \in HotelRuns(p) :
            /\ r[1] <= DayOf(night) /\ DayOf(night) <= r[2]
            /\ p[r[1]].hotel = p[DayOf(night)].hotel
    BY <2>1, DayInRun
  <2>3. /\ Of(r) \in B
        /\ Of(r).hotel = NightHotel(p, night)
        /\ Of(r).checkIn <= night /\ night < Of(r).checkOut
    BY <1>1, <1>2, <2>2 DEF NightHotel, DayOf
  <2>4. ASSUME NEW c \in B, c.checkIn <= night, night < c.checkOut
        PROVE  c = Of(r)
    <3>1. PICK t \in HotelRuns(p) : c = Of(t)
      BY <1>1
    <3>2. t[1] <= DayOf(night) /\ DayOf(night) <= t[2]
      BY <3>1, <2>4, <1>2
    <3>3. t = r
      BY <2>1, <2>2, <3>2, RunOfDay
    <3> QED BY <3>1, <3>3
  <2> QED BY <2>3, <2>4
<1>4. \A b \in B : b.checkOut <= Len(p) + 1
  <2> SUFFICES ASSUME NEW b \in B PROVE b.checkOut <= Len(p) + 1
    OBVIOUS
  <2>1. PICK r \in HotelRuns(p) : b = Of(r)
    BY <1>1
  <2>2. 0 \in 0..Len(p)
    BY <1>0
  <2> QED BY <2>1, <2>2, <1>2
<1> QED BY <1>3, <1>4 DEF B

\* What the optimizer answers has the shape of a trip.
LEMMA TripShape ==
    ASSUME NEW n \in Nat \ {0}, NEW q, q = [d \in 1..n |-> q[d]]
    PROVE  IsTrip(q)
<1> DEFINE R == {q[d] : d \in 1..n}
<1>1. q \in [1..n -> R]
  OBVIOUS
<1>2. q \in Seq(R)
  BY <1>1
<1>3. Len(q) \in Nat /\ DOMAIN q = 1..Len(q)
  BY <1>2
<1>4. DOMAIN q = 1..n
  BY <1>1
<1>5. Len(q) = n
  BY <1>3, <1>4
<1> QED BY <1>4, <1>5 DEF IsTrip

LEMMA SolutionIsTrip ==
    ASSUME NEW q \in Solutions
    PROVE  IsTrip(q)
<1>1. ASSUME NEW p \in Plans
      PROVE  \E n \in Nat \ {0} : p = [d \in 1..n |-> p[d]]
  <2>1. PICK n \in 1..MaxDays : p \in TripsOf(n)
    BY DEF Plans
  <2>2. PICK h \in [1..n -> hotels], v \in Visits(n), hint \in chosen \cup {Null} :
            p = Trip(n, h, v, hint)
    BY <2>1 DEF TripsOf
  <2>3. p = [d \in 1..n |-> p[d]]
    BY <2>2 DEF Trip
  <2>4. n \in Nat \ {0}
    BY PlannerConstants
  <2> QED BY <2>3, <2>4
<1>2. CASE q \in Plans
  BY <1>1, <1>2, TripShape
<1>3. CASE \E p \in Plans : q \in Garbled(p)
  <2>1. PICK p \in Plans : q \in Garbled(p)
    BY <1>3
  <2>2. PICK n \in Nat \ {0} : p = [d \in 1..n |-> p[d]]
    BY <1>1
  <2>3. q = [d \in 1..n |-> q[d]]
    <3>1. CASE \E d \in DOMAIN p : q = [p EXCEPT ![d].hotel = Unknown]
      BY <2>2, <3>1
    <3>2. CASE \E dx \in (DOMAIN p) \X (chosen \cup {Unknown}) :
                  q = [p EXCEPT ![dx[1]].points = Append(@, dx[2])]
      BY <2>2, <3>2
    <3> QED BY <2>1, <3>1, <3>2 DEF Garbled
  <2> QED BY <2>2, <2>3, TripShape
<1> QED BY <1>2, <1>3 DEF Solutions

\* The bookings are those of the trip under way, and there are none before it.
BookingsInv ==
    /\ stage \in {"points", "hotels", "edges", "solve"} => bookings = {}
    /\ bookings # {} => IsTrip(plan) /\ bookings = BuildHotelBookingSegments(plan)

LEMMA BookingsStep == BookingsInv /\ [Next]_vars => BookingsInv'
<1> SUFFICES ASSUME BookingsInv, [Next]_vars PROVE BookingsInv'
  OBVIOUS
<1> USE DEF BookingsInv
<1>1. ASSUME NEW kind \in {"check", "generate"}, NEW S \in Selections, Ask(kind, S)
      PROVE  BookingsInv'
  BY <1>1 DEF Ask
<1>2. CASE Refuse
  BY <1>2 DEF Refuse
<1>3. CASE ReadPoints
  BY <1>3 DEF ReadPoints
<1>4. CASE ReadHotels
  BY <1>4 DEF ReadHotels
<1>5. CASE ReadEdges
  BY <1>5 DEF ReadEdges
<1>6. ASSUME NEW solution \in Solutions, Solve(solution)
      PROVE  BookingsInv'
  <2>1. IsTrip(plan')
    BY <1>6, SolutionIsTrip DEF Solve
  <2>2. CASE bookings' = BuildHotelBookingSegments(solution) /\ stage' = "ask"
    BY <1>6, <2>1, <2>2 DEF Solve
  <2>3. CASE bookings' = bookings /\ stage' = "idle"
    BY <1>6, <2>3 DEF Solve
  <2> QED BY <1>6, <2>2, <2>3 DEF Solve
<1>7. CASE AskDirections
  BY <1>7 DEF AskDirections
<1>8. ASSUME NEW leg \in Pairs, Answer(leg) PROVE BookingsInv'
  BY <1>8 DEF Answer
<1>9. CASE FinishDay
  BY <1>9 DEF FinishDay
<1>10. ASSUME NEW place \in Places, EditPlace(place) PROVE BookingsInv'
  BY <1>10 DEF EditPlace
<1>11. ASSUME NEW rows \in EdgeSets, EditEdges(rows) PROVE BookingsInv'
  BY <1>11 DEF EditEdges
<1>12. CASE UNCHANGED vars
  BY <1>12 DEF vars
<1> QED BY <1>1, <1>2, <1>3, <1>4, <1>5, <1>6, <1>7, <1>8, <1>9, <1>10, <1>11,
           <1>12 DEF Next

\* Whatever trip the optimizer answers, of any length and with any changes of
\* hotel, every night of it is booked exactly once, in the hotel of its day
\* (buildHotelBookingSegments).
THEOREM NightsAreTiled == Spec => []NightsTiled
<1>1. Init => BookingsInv
  BY DEF Init, BookingsInv
<1>2. BookingsInv /\ [Next]_vars => BookingsInv'
  BY BookingsStep
<1>3. BookingsInv => NightsTiled
  <2> SUFFICES ASSUME BookingsInv, bookings # {}
               PROVE  /\ \A night \in 0..Len(plan) :
                            \E b \in bookings :
                               /\ b.hotel = Sleeps(night)
                               /\ b.checkIn <= night /\ night < b.checkOut
                               /\ \A c \in bookings :
                                     c.checkIn <= night /\ night < c.checkOut => c = b
                      /\ \A b \in bookings : b.checkOut <= Len(plan) + 1
    BY DEF NightsTiled
  <2>1. IsTrip(plan) /\ bookings = BuildHotelBookingSegments(plan)
    BY DEF BookingsInv
  <2>2. \A night : Sleeps(night) = NightHotel(plan, night)
    BY DEF Sleeps, NightHotel
  <2> QED BY <2>1, <2>2, BookingsTile
<1> QED BY <1>1, <1>2, <1>3, PTL DEF Spec

\* Within one itinerary no leg is asked about twice and no answer is lost
\* (transitDirectionCache), for any number of legs and any order of answers.
THEOREM AskedOnce == Spec => DirectionsAskedOnce
<1> DEFINE Kept == plan' = plan /\ plan # <<>> =>
               \A leg \in DOMAIN directions :
                   /\ leg \in DOMAIN directions'
                   /\ directions[leg] # "waiting" => directions'[leg] = directions[leg]
<1>1. ASSUME Next PROVE Kept
  <2>1. ASSUME NEW kind \in {"check", "generate"}, NEW S \in Selections, Ask(kind, S)
        PROVE  Kept
    BY <2>1 DEF Ask
  <2>2. CASE Refuse \/ ReadPoints \/ ReadHotels \/ ReadEdges \/ FinishDay
    BY <2>2 DEF Refuse, ReadPoints, ReadHotels, ReadEdges, FinishDay
  <2>3. ASSUME NEW solution \in Solutions, Solve(solution) PROVE Kept
    BY <2>3 DEF Solve
  <2>4. CASE AskDirections
    BY <2>4 DEF AskDirections
  <2>5. ASSUME NEW leg \in Pairs, Answer(leg) PROVE Kept
    BY <2>5 DEF Answer
  <2>6. ASSUME NEW place \in Places, EditPlace(place) PROVE Kept
    BY <2>6 DEF EditPlace
  <2>7. ASSUME NEW rows \in EdgeSets, EditEdges(rows) PROVE Kept
    BY <2>7 DEF EditEdges
  <2> QED BY <1>1, <2>1, <2>2, <2>3, <2>4, <2>5, <2>6, <2>7 DEF Next
<1>2. [Next]_vars => [Kept]_vars
  BY <1>1
<1> QED BY <1>2, PTL DEF Spec, DirectionsAskedOnce

-----------------------------------------------------------------------------
\* What a sequence with one more item holds.
LEMMA PushFacts ==
    ASSUME NEW S, NEW s \in Seq(S), NEW e \in S
    PROVE  /\ s \o <<e>> \in Seq(S)
           /\ Len(s) \in Nat /\ DOMAIN s = 1..Len(s)
           /\ Len(s \o <<e>>) = Len(s) + 1
           /\ DOMAIN (s \o <<e>>) = 1..(Len(s) + 1)
           /\ \A i \in 1..Len(s) : (s \o <<e>>)[i] = s[i] /\ s[i] \in S
           /\ (s \o <<e>>)[Len(s) + 1] = e
  OBVIOUS

\* The last item but for lunch breaks is a stop at x, or a transport to x.
At(s, x) ==
    \E k \in DOMAIN s :
        /\ s[k] # LunchBreak /\ s[k].item # "transport" /\ s[k].place = x
        /\ \A i \in (k + 1)..Len(s) : s[i] = LunchBreak

Towards(s, x) ==
    \E k \in DOMAIN s :
        /\ s[k] # LunchBreak /\ s[k].item = "transport" /\ s[k].to = x
        /\ \A i \in (k + 1)..Len(s) : s[i] = LunchBreak

LunchesIn(s) ==
    {k \in DOMAIN s : s[k] = LunchBreak \/ (s[k].item = "point" /\ s[k].lunch)}

\* The day so far has no lunch, or has one.
Fasted(s) == LunchesIn(s) = {}
Fed(s) == \E k : LunchesIn(s) = {k}

\* The day so far begins with a hotel, hangs together, and has no transports
\* but those of R.
Begun(s, first, R) ==
    /\ s \in Seq(Items) /\ Len(s) # 0 /\ s[1] = first /\ Chained(s)
    /\ \A k \in DOMAIN s : s[k].item = "transport" => s[k] \in R

\* An item that is no lunch changes nothing about lunch; one that is makes it.
LEMMA PushLunches ==
    ASSUME NEW s \in Seq(Items), NEW e \in Items
    PROVE  LET is == e = LunchBreak \/ (e.item = "point" /\ e.lunch)
               t == s \o <<e>> IN
           /\ ~ is => (Fasted(s) => Fasted(t)) /\ (Fed(s) => Fed(t))
           /\ is => (Fasted(s) => Fed(t))
<1> DEFINE is == e = LunchBreak \/ (e.item = "point" /\ e.lunch)
           t == s \o <<e>>
           n == Len(s)
<1>1. /\ n \in Nat /\ DOMAIN s = 1..n /\ DOMAIN t = 1..(n + 1)
      /\ \A i \in 1..n : t[i] = s[i]
      /\ t[n + 1] = e
  BY PushFacts
<1> HIDE DEF t, n
<1>2. \A k : k \in LunchesIn(t) <=> k \in LunchesIn(s) \/ (k = n + 1 /\ is)
  BY <1>1 DEF LunchesIn
<1>3. ~ is => LunchesIn(t) = LunchesIn(s)
  BY <1>2
<1>4. is /\ LunchesIn(s) = {} => LunchesIn(t) = {n + 1}
  BY <1>2
<1> QED BY <1>3, <1>4 DEF Fasted, Fed, t

\* The next item follows from the last one, and the day still hangs together.
LEMMA PushChained ==
    ASSUME NEW s \in Seq(Items), NEW e \in Items, Chained(s), e # LunchBreak,
           \E k \in DOMAIN s :
              /\ s[k] # LunchBreak /\ \A i \in (k + 1)..Len(s) : s[i] = LunchBreak
              /\ Leaves(s[k], e) \/ Reaches(s[k], e)
    PROVE  Chained(s \o <<e>>)
<1> DEFINE t == s \o <<e>>
           n == Len(s)
<1>1. /\ n \in Nat /\ DOMAIN s = 1..n /\ DOMAIN t = 1..(n + 1)
      /\ \A i \in 1..n : t[i] = s[i]
      /\ t[n + 1] = e
  BY PushFacts
<1>2. PICK m \in 1..n :
          /\ s[m] # LunchBreak /\ \A i \in (m + 1)..n : s[i] = LunchBreak
          /\ Leaves(s[m], e) \/ Reaches(s[m], e)
  BY <1>1
<1> HIDE DEF t, n
<1>3. ASSUME NEW j \in DOMAIN t, NEW k \in DOMAIN t,
             j < k, LunchBreak \notin {t[j], t[k]},
             \A i \in (j + 1)..(k - 1) : t[i] = LunchBreak
      PROVE  Leaves(t[j], t[k]) \/ Reaches(t[j], t[k])
  <2>1. CASE k = n + 1
    <3>1. j \in 1..n /\ t[j] = s[j] /\ t[k] = e /\ s[j] # LunchBreak
      BY <1>1, <1>3, <2>1
    <3>2. ~ (j < m)
      <4> SUFFICES ASSUME j < m PROVE FALSE
        OBVIOUS
      <4>1. m \in (j + 1)..(k - 1)
        BY <1>1, <2>1, <3>1
      <4> QED BY <4>1, <1>1, <1>2, <1>3
    <3>3. ~ (m < j)
      BY <1>1, <1>2, <3>1
    <3>4. j = m
      BY <3>1, <3>2, <3>3, <1>1
    <3> QED BY <3>1, <3>4, <1>2
  <2>2. CASE k # n + 1
    <3>1. j \in 1..n /\ k \in 1..n /\ t[j] = s[j] /\ t[k] = s[k]
      BY <1>1, <1>3, <2>2
    <3>2. \A i \in (j + 1)..(k - 1) : i \in 1..n /\ s[i] = t[i]
      BY <3>1, <1>1
    <3>3. /\ j < k /\ LunchBreak \notin {s[j], s[k]}
          /\ \A i \in (j + 1)..(k - 1) : s[i] = LunchBreak
      BY <1>3, <3>1, <3>2
    <3> QED BY <3>1, <3>3, <1>1 DEF Chained
  <2> QED BY <2>1, <2>2
<1>4. Chained(t)
  BY <1>3 DEF Chained
<1> QED BY <1>4 DEF t

\* A lunch break changes nothing about where the day stands.
LEMMA PushBreak ==
    ASSUME NEW first, NEW R, NEW s, Begun(s, first, R)
    PROVE  LET t == s \o <<LunchBreak>> IN
           /\ Begun(t, first, R)
           /\ \A x : (At(s, x) => At(t, x)) /\ (Towards(s, x) => Towards(t, x))
           /\ Fasted(s) => Fed(t)
<1> DEFINE t == s \o <<LunchBreak>>
           n == Len(s)
<1>0. s \in Seq(Items) /\ LunchBreak \in Items
  BY DEF Begun, Items
<1>1. /\ t \in Seq(Items) /\ n \in Nat /\ DOMAIN s = 1..n /\ DOMAIN t = 1..(n + 1)
      /\ Len(t) = n + 1
      /\ \A i \in 1..n : t[i] = s[i]
      /\ t[n + 1] = LunchBreak
  BY <1>0, PushFacts
<1>2. Fasted(s) => Fed(t)
  BY <1>0, PushLunches
<1> HIDE DEF t, n
<1>3. \A k \in 1..n :
         (\A i \in (k + 1)..n : s[i] = LunchBreak)
            => \A i \in (k + 1)..(n + 1) : t[i] = LunchBreak
  <2> SUFFICES ASSUME NEW k \in 1..n, \A i \in (k + 1)..n : s[i] = LunchBreak,
                      NEW i \in (k + 1)..(n + 1)
               PROVE  t[i] = LunchBreak
    OBVIOUS
  <2>1. i = n + 1 \/ (i \in (k + 1)..n /\ i \in 1..n)
    BY <1>1
  <2> QED BY <2>1, <1>1
<1>4. ASSUME NEW x PROVE (At(s, x) => At(t, x)) /\ (Towards(s, x) => Towards(t, x))
  <2>1. ASSUME NEW k \in 1..n PROVE k \in DOMAIN t /\ t[k] = s[k]
    BY <1>1
  <2>2. ASSUME At(s, x) PROVE At(t, x)
    <3>1. PICK k \in 1..n :
              /\ s[k] # LunchBreak /\ s[k].item # "transport" /\ s[k].place = x
              /\ \A i \in (k + 1)..n : s[i] = LunchBreak
      BY <2>2, <1>1 DEF At, n
    <3>2. \A i \in (k + 1)..Len(t) : t[i] = LunchBreak
      BY <3>1, <1>3, <1>1
    <3> QED BY <3>1, <3>2, <2>1 DEF At
  <2>3. ASSUME Towards(s, x) PROVE Towards(t, x)
    <3>1. PICK k \in 1..n :
              /\ s[k] # LunchBreak /\ s[k].item = "transport" /\ s[k].to = x
              /\ \A i \in (k + 1)..n : s[i] = LunchBreak
      BY <2>3, <1>1 DEF Towards, n
    <3>2. \A i \in (k + 1)..Len(t) : t[i] = LunchBreak
      BY <3>1, <1>3, <1>1
    <3> QED BY <3>1, <3>2, <2>1 DEF Towards
  <2> QED BY <2>2, <2>3
<1>5. Begun(t, first, R)
  <2>1. Len(s) # 0 /\ s[1] = first /\ Chained(s)
        /\ \A k \in DOMAIN s : s[k].item = "transport" => s[k] \in R
    BY DEF Begun
  <2>2. Len(t) # 0 /\ t[1] = first
    BY <2>1, <1>1 DEF n
  <2>3. \A k \in DOMAIN t : t[k].item = "transport" => t[k] \in R
    <3>1. LunchBreak.item # "transport"
      BY DEF LunchBreak
    <3>2. \A k \in DOMAIN t : k = n + 1 \/ k \in DOMAIN s
      BY <1>1
    <3> QED BY <3>1, <3>2, <2>1, <1>1
  <2>4. Chained(t)
    <3> SUFFICES ASSUME NEW j \in DOMAIN t, NEW k \in DOMAIN t,
                        j < k, LunchBreak \notin {t[j], t[k]},
                        \A i \in (j + 1)..(k - 1) : t[i] = LunchBreak
                 PROVE  Leaves(t[j], t[k]) \/ Reaches(t[j], t[k])
      BY DEF Chained
    <3>0. k # n + 1
      BY <1>1
    <3>1. j \in 1..n /\ k \in 1..n /\ t[j] = s[j] /\ t[k] = s[k]
      BY <1>1, <3>0
    <3>2. \A i \in (j + 1)..(k - 1) : i \in 1..n /\ s[i] = t[i]
      BY <3>1, <1>1
    <3>3. /\ j < k /\ LunchBreak \notin {s[j], s[k]}
          /\ \A i \in (j + 1)..(k - 1) : s[i] = LunchBreak
      BY <3>1, <3>2
    <3> QED BY <3>1, <3>3, <1>1, <2>1 DEF Chained
  <2> QED BY <2>2, <2>3, <2>4, <1>1 DEF Begun
<1> QED BY <1>2, <1>4, <1>5 DEF t

\* The transport that leaves the last stop.
LEMMA PushTransport ==
    ASSUME NEW first, NEW R, NEW s, NEW x, Begun(s, first, R), At(s, x),
           NEW e \in R, e \in Items, e.item = "transport", e.from = x
    PROVE  LET t == s \o <<e>> IN
           /\ Begun(t, first, R) /\ Towards(t, e.to)
           /\ (Fasted(s) => Fasted(t)) /\ (Fed(s) => Fed(t))
<1> DEFINE t == s \o <<e>>
           n == Len(s)
<1>0. s \in Seq(Items) /\ Len(s) # 0 /\ s[1] = first /\ Chained(s)
      /\ \A k \in DOMAIN s : s[k].item = "transport" => s[k] \in R
  BY DEF Begun
<1>1. /\ t \in Seq(Items) /\ n \in Nat /\ DOMAIN s = 1..n /\ DOMAIN t = 1..(n + 1)
      /\ Len(t) = n + 1
      /\ \A i \in 1..n : t[i] = s[i]
      /\ t[n + 1] = e
  BY <1>0, PushFacts
<1>2. e # LunchBreak /\ e.item # "point"
  BY DEF LunchBreak
<1>3. (Fasted(s) => Fasted(t)) /\ (Fed(s) => Fed(t))
  BY <1>0, <1>2, PushLunches
<1>4. Chained(t)
  <2>1. PICK k \in DOMAIN s :
            /\ s[k] # LunchBreak /\ s[k].item # "transport" /\ s[k].place = x
            /\ \A i \in (k + 1)..Len(s) : s[i] = LunchBreak
    BY DEF At
  <2>2. Leaves(s[k], e)
    BY <2>1 DEF Leaves
  <2> QED BY <1>0, <1>2, <2>1, <2>2, PushChained
<1> HIDE DEF t, n
<1>5. Towards(t, e.to)
  <2>1. n + 1 \in DOMAIN t /\ \A i \in (n + 1 + 1)..Len(t) : t[i] = LunchBreak
    BY <1>1
  <2> QED BY <2>1, <1>1, <1>2 DEF Towards
<1>6. Begun(t, first, R)
  <2>1. Len(t) # 0 /\ t[1] = first
    BY <1>0, <1>1 DEF n
  <2>2. \A k \in DOMAIN t : k = n + 1 \/ k \in DOMAIN s
    BY <1>1
  <2>3. \A k \in DOMAIN t : t[k].item = "transport" => t[k] \in R
    BY <2>2, <1>0, <1>1
  <2> QED BY <2>1, <2>3, <1>1, <1>4 DEF Begun
<1> QED BY <1>3, <1>5, <1>6 DEF t

\* The stop the last transport leads to.
LEMMA PushStop ==
    ASSUME NEW first, NEW R, NEW s, NEW x, Begun(s, first, R), Towards(s, x),
           NEW e \in Items, e # LunchBreak, e.item # "transport", e.place = x
    PROVE  LET is == e.item = "point" /\ e.lunch
               t == s \o <<e>> IN
           /\ Begun(t, first, R) /\ At(t, x)
           /\ ~ is => (Fasted(s) => Fasted(t)) /\ (Fed(s) => Fed(t))
           /\ is => (Fasted(s) => Fed(t))
<1> DEFINE is == e.item = "point" /\ e.lunch
           t == s \o <<e>>
           n == Len(s)
<1>0. s \in Seq(Items) /\ Len(s) # 0 /\ s[1] = first /\ Chained(s)
      /\ \A k \in DOMAIN s : s[k].item = "transport" => s[k] \in R
  BY DEF Begun
<1>1. /\ t \in Seq(Items) /\ n \in Nat /\ DOMAIN s = 1..n /\ DOMAIN t = 1..(n + 1)
      /\ Len(t) = n + 1
      /\ \A i \in 1..n : t[i] = s[i]
      /\ t[n + 1] = e
  BY <1>0, PushFacts
<1>3. /\ ~ is => (Fasted(s) => Fasted(t)) /\ (Fed(s) => Fed(t))
      /\ is => (Fasted(s) => Fed(t))
  BY <1>0, PushLunches
<1>4. Chained(t)
  <2>1. PICK k \in DOMAIN s :
            /\ s[k] # LunchBreak /\ s[k].item = "transport" /\ s[k].to = x
            /\ \A i \in (k + 1)..Len(s) : s[i] = LunchBreak
    BY DEF Towards
  <2>2. Reaches(s[k], e)
    BY <2>1 DEF Reaches
  <2> QED BY <1>0, <2>1, <2>2, PushChained
<1> HIDE DEF t, n
<1>5. At(t, x)
  <2>1. n + 1 \in DOMAIN t /\ \A i \in (n + 1 + 1)..Len(t) : t[i] = LunchBreak
    BY <1>1
  <2> QED BY <2>1, <1>1 DEF At
<1>6. Begun(t, first, R)
  <2>1. Len(t) # 0 /\ t[1] = first
    BY <1>0, <1>1 DEF n
  <2>2. \A k \in DOMAIN t : k = n + 1 \/ k \in DOMAIN s
    BY <1>1
  <2>3. \A k \in DOMAIN t : t[k].item = "transport" => t[k] \in R
    BY <2>2, <1>0, <1>1
  <2> QED BY <2>1, <2>3, <1>1, <1>4 DEF Begun
<1> QED BY <1>3, <1>5, <1>6 DEF t

-----------------------------------------------------------------------------
\* f holds the joins of the first sequences of q, up to the k-th.
Joins(f, q, k) == f = [i \in 1..k |-> IF i = 1 THEN q[i] ELSE f[i - 1] \o q[i]]

\* The recursive function within FlattenSeq exists, so it is what it says.
LEMMA FlattenUnfolds ==
    ASSUME NEW n \in Nat \ {0}, NEW q, Len(q) = n
    PROVE  \E f : Joins(f, q, n) /\ FlattenSeq(q) = f[n]
<1> DEFINE T == {k \in 1..n : ~ \E f : Joins(f, q, k)}
<1>1. T = {}
  <2> SUFFICES ASSUME T # {} PROVE FALSE
    OBVIOUS
  <2>1. T \in SUBSET Nat
    OBVIOUS
  <2>2. PICK k \in T : \A y \in T : k <= y
    BY <2>1, LeastExists
  <2>3. k \in 1..n /\ ~ \E f : Joins(f, q, k)
    BY <2>2
  <2>4. CASE k = 1
    <3> DEFINE g == [i \in 1..1 |-> q[i]]
    <3>1. g = [i \in 1..1 |-> IF i = 1 THEN q[i] ELSE g[i - 1] \o q[i]]
      OBVIOUS
    <3>2. Joins(g, q, k)
      BY <3>1, <2>4 DEF Joins
    <3> QED BY <3>2, <2>3
  <2>5. CASE k # 1
    <3>1. k - 1 \in 1..n /\ ~ (k <= k - 1)
      BY <2>3, <2>5
    <3>2. k - 1 \notin T
      BY <2>2, <3>1
    <3>3. PICK h : Joins(h, q, k - 1)
      BY <3>1, <3>2
    <3> DEFINE g == [i \in 1..k |-> IF i = k THEN h[k - 1] \o q[k] ELSE h[i]]
    <3>4. ASSUME NEW i \in 1..k
          PROVE  g[i] = IF i = 1 THEN q[i] ELSE g[i - 1] \o q[i]
      <4>1. CASE i = k
        <5>1. k - 1 \in 1..k /\ k - 1 # k /\ g[k - 1] = h[k - 1]
          BY <2>3, <2>5
        <5>2. g[k] = h[k - 1] \o q[k]
          BY <2>3
        <5> QED BY <5>1, <5>2, <4>1, <2>5
      <4>2. CASE i # k
        <5>1. i \in 1..(k - 1) /\ g[i] = h[i]
          BY <4>2, <2>3
        <5>2. h[i] = IF i = 1 THEN q[i] ELSE h[i - 1] \o q[i]
          BY <5>1, <3>3 DEF Joins
        <5>3. CASE i = 1
          BY <5>1, <5>2, <5>3
        <5>4. CASE i # 1
          <6>1. i - 1 \in 1..k /\ i - 1 # k
            BY <5>1, <5>4, <2>3
          <6>2. g[i - 1] = h[i - 1]
            BY <6>1
          <6> QED BY <6>2, <5>1, <5>2, <5>4
        <5> QED BY <5>3, <5>4
      <4> QED BY <4>1, <4>2
    <3>5. g = [i \in 1..k |-> g[i]]
      OBVIOUS
    <3>6. Joins(g, q, k)
      BY <3>4, <3>5 DEF Joins
    <3> QED BY <3>6, <2>3
  <2> QED BY <2>4, <2>5
<1>2. n \in 1..n /\ n # 0
  OBVIOUS
<1>3. \E f : Joins(f, q, n)
  BY <1>1, <1>2
<1>4. FlattenSeq(q) = (CHOOSE f : Joins(f, q, n))[n]
  BY <1>2 DEF FlattenSeq, Joins
<1>5. Joins(CHOOSE f : Joins(f, q, n), q, n)
  BY <1>3
<1> QED BY <1>4, <1>5

Join(s, t) == s \o t

LEMMA Associates ==
    ASSUME NEW s \in Seq(Items), NEW t \in Seq(Items), NEW u \in Seq(Items)
    PROVE  /\ Join(t, u) \in Seq(Items)
           /\ Join(s, Join(t, u)) = Join(Join(s, t), u)
<1>1. t \o u \in Seq(Items)
  BY ConcatProperties
<1>2. (s \o t) \o u = s \o (t \o u)
  BY ConcatAssociative
<1> QED BY <1>1, <1>2 DEF Join

LEMMA PushOnly ==
    ASSUME NEW first, NEW R, NEW s, Begun(s, first, R), NEW c \in BOOLEAN
    PROVE  LET t == s \o Only(c, LunchBreak) IN
           /\ Begun(t, first, R)
           /\ \A x : (At(s, x) => At(t, x)) /\ (Towards(s, x) => Towards(t, x))
           /\ c => (Fasted(s) => Fed(t))
           /\ ~ c => (Fasted(s) => Fasted(t)) /\ (Fed(s) => Fed(t))
<1>1. CASE c
  BY <1>1, PushBreak DEF Only
<1>2. CASE ~ c
  <2>1. s \in Seq(Items)
    BY DEF Begun
  <2>2. s \o Only(c, LunchBreak) = s
    BY <1>2, <2>1, ConcatEmptySeq DEF Only
  <2> QED BY <1>2, <2>2
<1> QED BY <1>1, <1>2

\* One round of the loop: the leg, the visit, and perhaps a lunch break on
\* either side of it.
Round(leg, before, visit, after) ==
    <<leg>> \o Only(before, LunchBreak) \o <<visit>> \o Only(after, LunchBreak)

LEMMA OnlyType ==
    ASSUME NEW c \in BOOLEAN
    PROVE  Only(c, LunchBreak) \in Seq(Items)
<1>1. LunchBreak \in Items
  BY DEF Items
<1>2. CASE c
  BY <1>1, <1>2 DEF Only
<1>3. CASE ~ c
  BY <1>3 DEF Only
<1> QED BY <1>2, <1>3

\* The day with a round pushed item by item.
Pushed(s, leg, before, visit, after) ==
    (((s \o <<leg>>) \o Only(before, LunchBreak)) \o <<visit>>) \o Only(after, LunchBreak)

LEMMA RoundParts ==
    ASSUME NEW s \in Seq(Items), NEW leg \in Items, NEW visit \in Items,
           NEW before \in BOOLEAN, NEW after \in BOOLEAN
    PROVE  /\ Round(leg, before, visit, after) \in Seq(Items)
           /\ Join(s, Round(leg, before, visit, after)) = Pushed(s, leg, before, visit, after)
<1>1. PICK a, b, c, d : /\ a = <<leg>> /\ b = Only(before, LunchBreak)
                        /\ c = <<visit>> /\ d = Only(after, LunchBreak)
  OBVIOUS
<1>2. a \in Seq(Items) /\ b \in Seq(Items) /\ c \in Seq(Items) /\ d \in Seq(Items)
  BY <1>1, OnlyType
<1>3. Join(a, b) \in Seq(Items) /\ Join(s, Join(a, b)) = Join(Join(s, a), b)
  BY <1>2, Associates
<1>4. /\ Join(Join(a, b), c) \in Seq(Items)
      /\ Join(s, Join(Join(a, b), c)) = Join(Join(s, Join(a, b)), c)
  BY <1>2, <1>3, Associates
<1>5. /\ Join(Join(Join(a, b), c), d) \in Seq(Items)
      /\ Join(s, Join(Join(Join(a, b), c), d)) = Join(Join(s, Join(Join(a, b), c)), d)
  BY <1>2, <1>4, Associates
<1>6. Round(leg, before, visit, after) = Join(Join(Join(a, b), c), d)
  BY <1>1 DEF Round, Join
<1>7. Pushed(s, leg, before, visit, after) = Join(Join(Join(Join(s, a), b), c), d)
  BY <1>1 DEF Pushed, Join
<1> QED BY <1>3, <1>4, <1>5, <1>6, <1>7

\* What a round adds to a day that hangs together: the place of the visit, and
\* its one lunch.
LEMMA PushRound ==
    ASSUME NEW first, NEW R, NEW s, NEW x, Begun(s, first, R), At(s, x),
           NEW leg \in R, leg \in Items, leg.item = "transport", leg.from = x,
           NEW visit \in Items, visit.item = "point", visit.place = leg.to,
           NEW before \in BOOLEAN, NEW after \in BOOLEAN, visit.lunch \in BOOLEAN,
           ~ (before /\ after), ~ (visit.lunch /\ (before \/ after))
    PROVE  LET t == s \o Round(leg, before, visit, after)
               lunch == before \/ visit.lunch \/ after IN
           /\ Begun(t, first, R) /\ At(t, leg.to)
           /\ lunch => (Fasted(s) => Fed(t))
           /\ ~ lunch => (Fasted(s) => Fasted(t)) /\ (Fed(s) => Fed(t))
<1> DEFINE s1 == s \o <<leg>>
           s2 == s1 \o Only(before, LunchBreak)
           s3 == s2 \o <<visit>>
           s4 == s3 \o Only(after, LunchBreak)
<1>0. s \in Seq(Items)
  BY DEF Begun
<1>1. s \o Round(leg, before, visit, after) = s4
  <2>1. s4 = Pushed(s, leg, before, visit, after)
    BY DEF Pushed
  <2>2. Join(s, Round(leg, before, visit, after)) = Pushed(s, leg, before, visit, after)
    BY <1>0, RoundParts
  <2> QED BY <2>1, <2>2 DEF Join
<1>2. /\ Begun(s1, first, R) /\ Towards(s1, leg.to)
      /\ (Fasted(s) => Fasted(s1)) /\ (Fed(s) => Fed(s1))
  BY PushTransport
<1> HIDE DEF s1
<1>3. /\ Begun(s2, first, R) /\ Towards(s2, leg.to)
      /\ before => (Fasted(s1) => Fed(s2))
      /\ ~ before => (Fasted(s1) => Fasted(s2)) /\ (Fed(s1) => Fed(s2))
  BY <1>2, PushOnly
<1> HIDE DEF s2
<1>4. visit # LunchBreak /\ visit.item # "transport"
  BY DEF LunchBreak
<1>5. /\ Begun(s3, first, R) /\ At(s3, leg.to)
      /\ ~ visit.lunch => (Fasted(s2) => Fasted(s3)) /\ (Fed(s2) => Fed(s3))
      /\ visit.lunch => (Fasted(s2) => Fed(s3))
  BY <1>3, <1>4, PushStop
<1> HIDE DEF s3
<1>6. /\ Begun(s4, first, R) /\ At(s4, leg.to)
      /\ after => (Fasted(s3) => Fed(s4))
      /\ ~ after => (Fasted(s3) => Fasted(s4)) /\ (Fed(s3) => Fed(s4))
  BY <1>5, PushOnly
<1> HIDE DEF s4
<1> QED BY <1>1, <1>2, <1>3, <1>5, <1>6

\* What one round promises, from the place x to the place y.
Takes(round, first, R, x, y, lunch) ==
    /\ round \in Seq(Items)
    /\ \A s : Begun(s, first, R) /\ At(s, x) =>
          /\ Begun(s \o round, first, R) /\ At(s \o round, y)
          /\ lunch => (Fasted(s) => Fed(s \o round))
          /\ ~ lunch => (Fasted(s) => Fasted(s \o round)) /\ (Fed(s) => Fed(s \o round))

LEMMA RoundTakes ==
    ASSUME NEW first, NEW R, NEW x, NEW y,
           NEW leg \in R, leg \in Items, leg.item = "transport", leg.from = x, leg.to = y,
           NEW visit \in Items, visit.item = "point", visit.place = y,
           NEW before \in BOOLEAN, NEW after \in BOOLEAN, visit.lunch \in BOOLEAN,
           ~ (before /\ after), ~ (visit.lunch /\ (before \/ after)),
           NEW lunch, lunch = (before \/ visit.lunch \/ after)
    PROVE  Takes(Round(leg, before, visit, after), first, R, x, y, lunch)
<1> DEFINE round == Round(leg, before, visit, after)
<1>1. round \in Seq(Items)
  <2>1. <<>> \in Seq(Items)
    OBVIOUS
  <2> QED BY <2>1, RoundParts
<1>2. ASSUME NEW s, Begun(s, first, R), At(s, x)
      PROVE  /\ Begun(s \o round, first, R) /\ At(s \o round, y)
             /\ lunch => (Fasted(s) => Fed(s \o round))
             /\ ~ lunch => (Fasted(s) => Fasted(s \o round)) /\ (Fed(s) => Fed(s \o round))
  BY <1>2, PushRound
<1> QED BY <1>1, <1>2 DEF Takes

\* The day after the rounds up to i.
After(t, first, R, place, lunched, i) ==
    /\ Begun(t, first, R) /\ At(t, place[i])
    /\ (\E j \in 1..i : lunched[j]) => Fed(t)
    /\ (\A j \in 1..i : ~ lunched[j]) => Fasted(t)

\* The loop over the points of a day.
LEMMA PushRounds ==
    ASSUME NEW first, NEW R, NEW n \in Nat \ {0}, NEW q, Len(q) = n,
           NEW place, NEW lunched \in [1..n -> BOOLEAN],
           NEW s, Begun(s, first, R), At(s, place[0]), Fasted(s),
           \A i \in 1..n : Takes(q[i], first, R, place[i - 1], place[i], lunched[i]),
           \A j, k \in 1..n : lunched[j] /\ lunched[k] => j = k
    PROVE  /\ FlattenSeq(q) \in Seq(Items)
           /\ After(s \o FlattenSeq(q), first, R, place, lunched, n)
<1>0. PICK f : Joins(f, q, n) /\ FlattenSeq(q) = f[n]
  BY FlattenUnfolds
<1>1. /\ f = [i \in 1..n |-> IF i = 1 THEN q[i] ELSE f[i - 1] \o q[i]]
      /\ FlattenSeq(q) = f[n]
  BY <1>0 DEF Joins
<1>2. s \in Seq(Items)
  BY DEF Begun
<1> DEFINE Good(i) == f[i] \in Seq(Items) /\ After(s \o f[i], first, R, place, lunched, i)
           T == {i \in 1..n : ~ Good(i)}
<1>3. Good(1)
  <2>1. f[1] = q[1] /\ 1 \in 1..n /\ 1 - 1 = 0
    BY <1>1
  <2>2. Takes(q[1], first, R, place[0], place[1], lunched[1])
    BY <2>1
  <2>3. /\ q[1] \in Seq(Items)
        /\ Begun(s \o q[1], first, R) /\ At(s \o q[1], place[1])
        /\ lunched[1] => Fed(s \o q[1])
        /\ ~ lunched[1] => Fasted(s \o q[1])
    BY <2>2 DEF Takes
  <2>4. \A j \in 1..1 : j = 1
    OBVIOUS
  <2>5. 1 \in 1..1
    OBVIOUS
  <2>6. (\E j \in 1..1 : lunched[j]) => lunched[1]
    BY <2>4
  <2>7. (\A j \in 1..1 : ~ lunched[j]) => ~ lunched[1]
    BY <2>5
  <2>8. After(s \o q[1], first, R, place, lunched, 1)
    BY <2>3, <2>6, <2>7 DEF After
  <2> QED BY <2>1, <2>3, <2>8
<1>4. ASSUME NEW i \in 1..n, i # 1, Good(i - 1) PROVE Good(i)
  <2>0. i - 1 \in 1..n
    BY <1>4
  <2>1. f[i] = f[i - 1] \o q[i]
    BY <1>1, <1>4
  <2> DEFINE t == s \o f[i - 1]
  <2>2. Takes(q[i], first, R, place[i - 1], place[i], lunched[i])
    OBVIOUS
  <2>3. After(t, first, R, place, lunched, i - 1) /\ f[i - 1] \in Seq(Items)
    BY <1>4
  <2>4. q[i] \in Seq(Items)
    BY <2>2 DEF Takes
  <2>5. s \o f[i] = t \o q[i] /\ f[i] \in Seq(Items)
    <3>1. /\ Join(f[i - 1], q[i]) \in Seq(Items)
          /\ Join(s, Join(f[i - 1], q[i])) = Join(Join(s, f[i - 1]), q[i])
      BY <1>2, <2>3, <2>4, Associates
    <3> QED BY <2>1, <3>1 DEF Join
  <2> HIDE DEF t
  <2>6. /\ Begun(t, first, R) /\ At(t, place[i - 1])
        /\ (\E j \in 1..(i - 1) : lunched[j]) => Fed(t)
        /\ (\A j \in 1..(i - 1) : ~ lunched[j]) => Fasted(t)
    BY <2>3 DEF After
  <2>7. /\ Begun(t \o q[i], first, R) /\ At(t \o q[i], place[i])
        /\ lunched[i] => (Fasted(t) => Fed(t \o q[i]))
        /\ ~ lunched[i] => (Fasted(t) => Fasted(t \o q[i])) /\ (Fed(t) => Fed(t \o q[i]))
    BY <2>2, <2>6 DEF Takes
  <2>8. \A j \in 1..i : j = i \/ j \in 1..(i - 1)
    OBVIOUS
  <2>9. \A j \in 1..(i - 1) : j \in 1..i /\ j \in 1..n /\ j # i
    BY <1>4
  <2>10. lunched[i] => \A j \in 1..(i - 1) : ~ lunched[j]
    BY <2>9
  <2>11. (\E j \in 1..i : lunched[j]) => lunched[i] \/ \E j \in 1..(i - 1) : lunched[j]
    BY <2>8
  <2>12. i \in 1..i
    BY <1>4
  <2>13. (\E j \in 1..i : lunched[j]) => Fed(t \o q[i])
    BY <2>6, <2>7, <2>10, <2>11
  <2>14. (\A j \in 1..i : ~ lunched[j]) => Fasted(t \o q[i])
    BY <2>6, <2>7, <2>9, <2>12
  <2>15. After(t \o q[i], first, R, place, lunched, i)
    BY <2>7, <2>13, <2>14 DEF After
  <2> QED BY <2>5, <2>15
<1> HIDE DEF Good
<1>5. T = {}
  <2> SUFFICES ASSUME T # {} PROVE FALSE
    OBVIOUS
  <2>1. T \in SUBSET Nat
    OBVIOUS
  <2>2. PICK k \in T : \A y \in T : k <= y
    BY <2>1, LeastExists
  <2>3. k \in 1..n /\ ~ Good(k)
    BY <2>2
  <2>4. k # 1
    BY <2>3, <1>3
  <2>5. k - 1 \in 1..n /\ k - 1 \notin T
    BY <2>2, <2>3, <2>4
  <2> QED BY <2>3, <2>4, <2>5, <1>4
<1>6. Good(n)
  BY <1>5
<1> QED BY <1>1, <1>6 DEF Good

-----------------------------------------------------------------------------
\* Where the traveller is after each visit of a day, and before the first.
PlaceAfter(hotel, points) ==
    [i \in 0..Len(points) |-> IF i = 0 THEN hotel ELSE points[i]]

\* The first leg of a day that changes hotel comes before those to its points.
Moved(previous, hotel) == IF previous \in {Null, hotel} THEN 0 ELSE 1

LegsLead(legs, X, previous, hotel, n, off, place) ==
    /\ n \in Nat \ {0} /\ off \in {0, 1}
    /\ legs \in Seq(X \X X) /\ Len(legs) = n + 1 + off
    /\ off = 1 => legs[1] = <<previous, hotel>>
    /\ \A i \in 1..n : legs[i + off] = <<place[i - 1], place[i]>>
    /\ legs[n + 1 + off] = <<place[n], hotel>>

\* A day's legs lead from its hotel over its points back to it, after one from
\* the hotel of the day before when that is another one.
LEMMA LegsOfDay ==
    ASSUME NEW X, NEW hotel \in X, NEW previous \in X \cup {Null},
           NEW points \in Seq(X), points # <<>>
    PROVE  LegsLead(LegPairs(previous, hotel, points), X, previous, hotel,
                    Len(points), Moved(previous, hotel), PlaceAfter(hotel, points))
<1> DEFINE n == Len(points)
           off == Moved(previous, hotel)
           place == PlaceAfter(hotel, points)
           Q == X \X X
           head == IF previous = Null THEN << <<hotel, points[1]>> >>
                   ELSE IF previous # hotel
                        THEN << <<previous, hotel>>, <<hotel, points[1]>> >>
                        ELSE << <<previous, points[1]>> >>
           mid == [i \in 1..(n - 1) |-> <<points[i], points[i + 1]>>]
           last == << <<points[n], hotel>> >>
<1>1. /\ n \in Nat \ {0} /\ DOMAIN points = 1..n
      /\ \A i \in 1..n : points[i] \in X
  OBVIOUS
<1>2. LegPairs(previous, hotel, points) = (head \o mid) \o last
  BY DEF LegPairs
<1>3. /\ head \in Seq(Q) /\ Len(head) = 1 + off /\ off \in {0, 1}
      /\ head[1 + off] = <<hotel, points[1]>>
      /\ off = 1 => head[1] = <<previous, hotel>>
  <2>0. points[1] \in X
    BY <1>1
  <2> HIDE DEF head
  <2>1. CASE previous = Null
    <3>1. off = 0 /\ head = << <<hotel, points[1]>> >>
      BY <2>1 DEF Moved, head
    <3> QED BY <3>1, <2>0
  <2>2. CASE previous # Null /\ previous = hotel
    <3>1. off = 0 /\ head = << <<hotel, points[1]>> >>
      BY <2>2 DEF Moved, head
    <3> QED BY <3>1, <2>0
  <2>3. CASE previous # Null /\ previous # hotel
    <3>1. off = 1 /\ head = << <<previous, hotel>>, <<hotel, points[1]>> >>
      BY <2>3 DEF Moved, head
    <3>2. previous \in X
      BY <2>3
    <3> QED BY <3>1, <3>2, <2>0
  <2> QED BY <2>1, <2>2, <2>3
<1>4. /\ mid \in Seq(Q) /\ Len(mid) = n - 1
      /\ \A i \in 1..(n - 1) : mid[i] = <<points[i], points[i + 1]>>
  <2>1. \A i \in 1..(n - 1) : <<points[i], points[i + 1]>> \in Q
    BY <1>1
  <2>2. n - 1 \in Nat
    BY <1>1
  <2>3. mid \in [1..(n - 1) -> Q]
    BY <2>1
  <2> QED BY <2>2, <2>3
<1>5. last \in Seq(Q) /\ Len(last) = 1 /\ last[1] = <<points[n], hotel>>
  <2>1. points[n] \in X
    BY <1>1
  <2> QED BY <2>1
<1> HIDE DEF head, mid, last, n, off
<1>6. /\ head \o mid \in Seq(Q) /\ Len(head \o mid) = n + off
      /\ \A i \in 1..(n + off) : (head \o mid)[i] =
            IF i <= 1 + off THEN head[i] ELSE mid[i - (1 + off)]
  <2>1. /\ head \o mid \in Seq(Q) /\ Len(head \o mid) = Len(head) + Len(mid)
        /\ \A i \in 1..(Len(head) + Len(mid)) : (head \o mid)[i] =
              IF i <= Len(head) THEN head[i] ELSE mid[i - Len(head)]
    BY <1>3, <1>4, ConcatProperties
  <2>2. Len(head) + Len(mid) = n + off
    BY <1>1, <1>3, <1>4
  <2> QED BY <2>1, <2>2, <1>3
<1> DEFINE legs == (head \o mid) \o last
<1>7. /\ legs \in Seq(Q) /\ Len(legs) = n + 1 + off
      /\ \A i \in 1..(n + 1 + off) : legs[i] =
            IF i <= n + off THEN (head \o mid)[i] ELSE last[i - (n + off)]
  <2>0. PICK front : front = head \o mid
    OBVIOUS
  <2>1. /\ legs \in Seq(Q) /\ Len(legs) = Len(head \o mid) + Len(last)
        /\ \A i \in 1..(Len(head \o mid) + Len(last)) : legs[i] =
              IF i <= Len(head \o mid) THEN (head \o mid)[i]
              ELSE last[i - Len(head \o mid)]
    <3>1. front \in Seq(Q) /\ last \in Seq(Q)
      BY <1>5, <1>6, <2>0
    <3>2. /\ front \o last \in Seq(Q) /\ Len(front \o last) = Len(front) + Len(last)
          /\ \A i \in 1..(Len(front) + Len(last)) : (front \o last)[i] =
                IF i <= Len(front) THEN front[i] ELSE last[i - Len(front)]
      BY <3>1, ConcatProperties
    <3> QED BY <3>2, <2>0
  <2>2. Len(head \o mid) + Len(last) = n + 1 + off
    BY <1>1, <1>3, <1>5, <1>6
  <2> QED BY <2>1, <2>2, <1>6
<1> HIDE DEF legs
<1>8. off = 1 => legs[1] = <<previous, hotel>>
  BY <1>1, <1>3, <1>6, <1>7
<1>9. /\ place[0] = hotel
      /\ \A i \in 1..n : place[i] = points[i]
  BY <1>1 DEF PlaceAfter, n
<1>10. ASSUME NEW i \in 1..n PROVE legs[i + off] = <<place[i - 1], place[i]>>
  <2>1. i + off \in 1..(n + off) /\ i + off \in 1..(n + 1 + off) /\ i + off <= n + off
    BY <1>1, <1>3
  <2>2. legs[i + off] = (head \o mid)[i + off]
    BY <2>1, <1>7
  <2>3. CASE i = 1
    <3>1. (head \o mid)[i + off] = head[1 + off]
      BY <2>1, <2>3, <1>6, <1>3
    <3> QED BY <3>1, <2>2, <2>3, <1>3, <1>9
  <2>4. CASE i # 1
    <3>1. i - 1 \in 1..(n - 1) /\ i - 1 \in 1..n
          /\ ~ (i + off <= 1 + off) /\ (i + off) - (1 + off) = i - 1 /\ i - 1 + 1 = i
      BY <2>4, <1>1, <1>3
    <3>2. (head \o mid)[i + off] = mid[i - 1]
      BY <2>1, <3>1, <1>6
    <3>3. mid[i - 1] = <<points[i - 1], points[i]>>
      BY <3>1, <1>4
    <3> QED BY <2>2, <3>1, <3>2, <3>3, <1>9
  <2> QED BY <2>3, <2>4
<1>11. legs[n + 1 + off] = <<place[n], hotel>>
  <2>1. /\ n + 1 + off \in 1..(n + 1 + off) /\ ~ (n + 1 + off <= n + off)
        /\ (n + 1 + off) - (n + off) = 1 /\ n \in 1..n
    BY <1>1, <1>3
  <2>2. legs[n + 1 + off] = last[1]
    BY <2>1, <1>7
  <2> QED BY <2>1, <2>2, <1>5, <1>9
<1>12. legs = LegPairs(previous, hotel, points)
  BY <1>2 DEF legs
<1> HIDE DEF place
<1> QED BY <1>1, <1>3, <1>7, <1>8, <1>10, <1>11, <1>12 DEF n, off, place, LegsLead

Distinct(points) == \A i, j \in DOMAIN points : i # j => points[i] # points[j]

\* The visits with lunch: within them, or right before or after.
Lunched(points, hint) ==
    LET lunch == LunchArrangement(points) IN
    [i \in 1..Len(points) |->
        \/ lunch.break /\ hint = points[i]
        \/ lunch.at = i
        \/ lunch.break /\ hint = Null /\ i - 1 = Len(points) \div 2]

\* A visit day has one lunch, unless the hint names a point of another day.
LEMMA OneLunch ==
    ASSUME NEW points \in Seq(Points), points # <<>>, Distinct(points),
           NEW hint \in Points \cup {Null}
    PROVE  LET lunch == LunchArrangement(points)
               lunched == Lunched(points, hint)
               n == Len(points) IN
           /\ lunch.break \in BOOLEAN
           /\ lunch.break => \A i \in 1..n : lunch.at # i
           /\ lunched \in [1..n -> BOOLEAN]
           /\ \A j, k \in 1..n : lunched[j] /\ lunched[k] => j = k
           /\ (\E j \in 1..n : lunched[j]) \/ hint \notin {Null} \cup Range(points)
<1> DEFINE n == Len(points)
           courts == {i \in DOMAIN points : points[i] \in FoodCourt}
           lunch == LunchArrangement(points)
           lunched == Lunched(points, hint)
<1>1. /\ n \in Nat \ {0} /\ DOMAIN points = 1..n
      /\ \A i \in 1..n : points[i] \in Points
      /\ Null \notin Points
  BY PlannerConstants DEF Nodes, Places
<1>2. lunched \in [1..n -> BOOLEAN]
  BY DEF Lunched
<1>3. \A i \in 1..n : lunched[i] <=>
         \/ lunch.break /\ hint = points[i]
         \/ lunch.at = i
         \/ lunch.break /\ hint = Null /\ i - 1 = n \div 2
  BY DEF Lunched
<1>4. \/ lunch.break = FALSE /\ lunch.at \in 1..n
      \/ lunch.break = TRUE /\ lunch.at = 0
  <2>1. CASE courts # {}
    <3>1. courts \in SUBSET Nat
      BY <1>1
    <3>2. \E i \in courts : \A j \in courts : i <= j
      BY <2>1, <3>1, LeastExists
    <3>3. (CHOOSE i \in courts : \A j \in courts : i <= j) \in courts
      BY <3>2
    <3>4. lunch = [at |-> CHOOSE i \in courts : \A j \in courts : i <= j, break |-> FALSE]
      BY <2>1 DEF LunchArrangement
    <3> QED BY <3>3, <3>4, <1>1
  <2>2. CASE courts = {}
    <3>1. lunch \in {[at |-> 1, break |-> FALSE], [at |-> 0, break |-> TRUE]}
      BY <2>2 DEF LunchArrangement
    <3> QED BY <3>1, <1>1
  <2> QED BY <2>1, <2>2
<1> HIDE DEF lunch, lunched, n
<1>5. lunch.break \in BOOLEAN /\ (lunch.break => \A i \in 1..n : lunch.at # i)
  <2>1. lunch.break \in BOOLEAN
    BY <1>4
  <2>2. \A i \in 1..n : i # 0
    BY <1>1
  <2> QED BY <2>1, <2>2, <1>4
<1>6. \A j, k \in 1..n : lunched[j] /\ lunched[k] => j = k
  <2>1. CASE lunch.break = FALSE
    BY <2>1, <1>3
  <2>2. CASE lunch.break = TRUE /\ lunch.at = 0
    <3>1. CASE hint = Null
      <4>1. \A i \in 1..n : lunched[i] => i - 1 = n \div 2
        BY <2>2, <3>1, <1>1, <1>3
      <4> QED BY <4>1, <1>1
    <3>2. CASE hint # Null
      <4>1. \A i \in 1..n : lunched[i] => hint = points[i]
        BY <2>2, <3>2, <1>1, <1>3
      <4> QED BY <4>1, <1>1 DEF Distinct
    <3> QED BY <3>1, <3>2
  <2> QED BY <2>1, <2>2, <1>4
<1>7. (\E j \in 1..n : lunched[j]) \/ hint \notin {Null} \cup Range(points)
  <2>1. CASE lunch.at \in 1..n
    BY <2>1, <1>3
  <2>2. CASE lunch.break = TRUE
    <3>1. CASE hint = Null
      <4>1. n \div 2 + 1 \in 1..n /\ (n \div 2 + 1) - 1 = n \div 2
        BY <1>1
      <4> QED BY <4>1, <3>1, <2>2, <1>3
    <3>2. CASE hint \in Range(points)
      <4>1. PICK i \in 1..n : hint = points[i]
        BY <3>2, <1>1 DEF Range
      <4> QED BY <4>1, <2>2, <1>3
    <3> QED BY <3>1, <3>2
  <2> QED BY <2>1, <2>2, <1>4
<1> QED BY <1>2, <1>5, <1>6, <1>7 DEF lunch, lunched, n

-----------------------------------------------------------------------------
\* The items of a day, in the order they are pushed: its start, then for every visit
\* the leg to it, a break for lunch before or after, the stop itself, and its end.
LegAt(legs, k) == IF k \in DOMAIN legs THEN <<legs[k]>> ELSE <<>>

VisitItems(i, off, legs, points, lunch, hint) ==
    LegAt(legs, i + off)
    \o Only(lunch.break /\ hint = points[i], LunchBreak)
    \o <<[item |-> "point", place |-> points[i], lunch |-> lunch.at = i]>>
    \o Only(lunch.break /\ hint = Null /\ i - 1 = Len(points) \div 2, LunchBreak)

Assembled(start, end, off, legs, points, lunch, hint) ==
    <<HotelStop(start)>>
    \o (IF off = 1 THEN <<legs[1], HotelStop(end)>> ELSE <<>>)
    \o FlattenSeq([i \in DOMAIN points |-> VisitItems(i, off, legs, points, lunch, hint)])
    \o LegAt(legs, Len(points) + 1 + off)
    \o <<HotelStop(end)>>

LEMMA SequenceParts ==
    ASSUME NEW start, NEW end, NEW previous, NEW hotel, NEW legs, NEW points, NEW lunch,
           NEW hint, legs # <<>>
    PROVE  BuildDaySequence(start, end, previous \notin {Null, hotel}, legs, points,
                            lunch, hint)
              = Assembled(start, end, Moved(previous, hotel), legs, points, lunch, hint)
<1>1. CASE previous \in {Null, hotel}
  <2>1. Moved(previous, hotel) = 0
    BY <1>1 DEF Moved
  <2> QED BY <1>1, <2>1 DEF BuildDaySequence, Assembled, VisitItems, LegAt
<1>2. CASE previous \notin {Null, hotel}
  <2>1. Moved(previous, hotel) = 1
    BY <1>2 DEF Moved
  <2> QED BY <1>2, <2>1 DEF BuildDaySequence, Assembled, VisitItems, LegAt
<1> QED BY <1>1, <1>2

\* The legs of a day as items of its sequence.
DayItems(previous, hotel, points) ==
    LET pairs == LegPairs(previous, hotel, points) IN
    [k \in DOMAIN pairs |-> GeneratedLeg(pairs[k])]

\* The sequence of a day between the bookings start and end.
DaySequence(start, end, previous, hotel, points, hint) ==
    BuildDaySequence(start, end, previous \notin {Null, hotel},
                     DayItems(previous, hotel, points), points,
                     LunchArrangement(points), hint)

LEMMA LegItems ==
    ASSUME NEW hotel \in Hotels, NEW previous \in Hotels \cup {Null},
           NEW points \in Seq(Points), points # <<>>
    PROVE  LET legs == DayItems(previous, hotel, points)
               n == Len(points)
               off == Moved(previous, hotel)
               place == PlaceAfter(hotel, points) IN
           /\ n \in Nat \ {0} /\ off \in {0, 1} /\ DOMAIN legs = 1..(n + 1 + off)
           /\ \A k \in 1..(n + 1 + off) :
                 legs[k] \in Items /\ legs[k].item = "transport" /\ legs[k] \in Range(legs)
           /\ off = 1 => legs[1].from = previous /\ legs[1].to = hotel
           /\ \A i \in 1..n : legs[i + off].from = place[i - 1] /\ legs[i + off].to = place[i]
           /\ legs[n + 1 + off].from = place[n] /\ legs[n + 1 + off].to = hotel
<1> DEFINE pairs == LegPairs(previous, hotel, points)
           legs == DayItems(previous, hotel, points)
           n == Len(points)
           off == Moved(previous, hotel)
           place == PlaceAfter(hotel, points)
<1>1. hotel \in Places /\ previous \in Places \cup {Null} /\ points \in Seq(Places)
  <2>1. \A i \in DOMAIN points : points[i] \in Places
    BY DEF Places
  <2> QED BY <2>1 DEF Places
<1>2. /\ n \in Nat \ {0}
      /\ pairs \in Seq(Places \X Places) /\ Len(pairs) = n + 1 + off /\ off \in {0, 1}
      /\ off = 1 => pairs[1] = <<previous, hotel>>
      /\ \A i \in 1..n : pairs[i + off] = <<place[i - 1], place[i]>>
      /\ pairs[n + 1 + off] = <<place[n], hotel>>
  <2>1. LegsLead(pairs, Places, previous, hotel, n, off, place)
    BY <1>1, LegsOfDay
  <2> HIDE DEF pairs, n, off, place
  <2> QED BY <2>1 DEF LegsLead
<1> HIDE DEF pairs, n, off, place
<1>3. DOMAIN pairs = 1..(n + 1 + off)
      /\ \A k \in 1..(n + 1 + off) : pairs[k] \in Places \X Places
  BY <1>2
<1>4. DOMAIN legs = 1..(n + 1 + off)
      /\ \A k \in 1..(n + 1 + off) : legs[k] = GeneratedLeg(pairs[k])
  BY <1>3 DEF DayItems, pairs
<1> HIDE DEF legs
<1>5. ASSUME NEW k \in 1..(n + 1 + off)
      PROVE  /\ legs[k] \in Items /\ legs[k].item = "transport" /\ legs[k] \in Range(legs)
             /\ legs[k].from = pairs[k][1] /\ legs[k].to = pairs[k][2]
  <2>1. legs[k] = [item |-> "transport", from |-> pairs[k][1], to |-> pairs[k][2],
                   made |-> ResolveTransitEdge(pairs[k]).made]
    BY <1>4 DEF GeneratedLeg
  <2>2. ResolveTransitEdge(pairs[k]).made \in BOOLEAN
    BY DEF ResolveTransitEdge
  <2>3. pairs[k][1] \in Places /\ pairs[k][2] \in Places
    BY <1>3
  <2>4. legs[k] \in Items
    BY <2>1, <2>2, <2>3 DEF Items
  <2>5. legs[k] \in Range(legs)
    BY <1>4 DEF Range
  <2> QED BY <2>1, <2>4, <2>5
<1>6. /\ 1 \in 1..(n + 1 + off) /\ n + 1 + off \in 1..(n + 1 + off)
      /\ \A i \in 1..n : i + off \in 1..(n + 1 + off)
  BY <1>2
<1>7. off = 1 => legs[1].from = previous /\ legs[1].to = hotel
  <2>1. off = 1 => pairs[1][1] = previous /\ pairs[1][2] = hotel
    BY <1>2
  <2>2. legs[1].from = pairs[1][1] /\ legs[1].to = pairs[1][2]
    BY <1>5, <1>6
  <2> QED BY <2>1, <2>2
<1>8. ASSUME NEW i \in 1..n
      PROVE  legs[i + off].from = place[i - 1] /\ legs[i + off].to = place[i]
  <2>1. pairs[i + off] = <<place[i - 1], place[i]>>
    BY <1>2
  <2>2. legs[i + off].from = pairs[i + off][1] /\ legs[i + off].to = pairs[i + off][2]
    BY <1>5, <1>6
  <2> QED BY <2>1, <2>2
<1>9. legs[n + 1 + off].from = place[n] /\ legs[n + 1 + off].to = hotel
  <2>1. PICK k \in 1..(n + 1 + off) : k = n + 1 + off
    BY <1>6
  <2>2. legs[k].from = pairs[k][1] /\ legs[k].to = pairs[k][2]
    BY <1>5
  <2>3. pairs[k] = <<place[n], hotel>>
    BY <1>2, <2>1
  <2>4. pairs[k][1] = place[n] /\ pairs[k][2] = hotel
    BY <2>3
  <2> QED BY <2>1, <2>2, <2>4
<1> QED BY <1>2, <1>4, <1>5, <1>7, <1>8, <1>9 DEF legs, n, off, place

LEMMA StopItems ==
    ASSUME NEW b \in Bookings
    PROVE  /\ HotelStop(b) \in Items /\ HotelStop(b) # LunchBreak
           /\ HotelStop(b).item = "hotel" /\ HotelStop(b).place = b.hotel
<1>1. /\ b.hotel \in Hotels /\ b.checkIn \in Nat /\ b.checkOut \in Nat
  BY DEF Bookings
<1>2. HotelStop(b) = [item |-> "hotel", place |-> b.hotel,
                      checkIn |-> b.checkIn, checkOut |-> b.checkOut]
  BY DEF HotelStop
<1>3. HotelStop(b) \in Items
  BY <1>1, <1>2 DEF Items
<1> QED BY <1>2, <1>3 DEF LunchBreak

\* A day begins at its first hotel.
LEMMA FirstStop ==
    ASSUME NEW first \in Items, first.item = "hotel", NEW R
    PROVE  /\ Begun(<<first>>, first, R) /\ At(<<first>>, first.place)
           /\ Fasted(<<first>>)
<1> DEFINE s == <<first>>
<1>1. s \in Seq(Items) /\ Len(s) = 1 /\ DOMAIN s = {1} /\ s[1] = first
  OBVIOUS
<1> HIDE DEF s
<1>2. first # LunchBreak
  BY DEF LunchBreak
<1>3. Chained(s)
  BY <1>1 DEF Chained
<1>4. Begun(s, first, R)
  BY <1>1, <1>3 DEF Begun
<1>5. At(s, first.place)
  <2>1. 1 \in DOMAIN s /\ \A i \in (1 + 1)..Len(s) : s[i] = LunchBreak
    BY <1>1
  <2> QED BY <2>1, <1>1, <1>2 DEF At
<1>6. Fasted(s)
  BY <1>1, <1>2 DEF Fasted, LunchesIn
<1> QED BY <1>4, <1>5, <1>6 DEF s

\* Before its points, a day has brought the traveller to the day's own hotel.
LEMMA DayStarts ==
    ASSUME NEW first \in Items, first.item = "hotel",
           NEW last \in Items, last.item = "hotel",
           NEW R, NEW leg, NEW moved \in BOOLEAN,
           moved => /\ leg \in R /\ leg \in Items /\ leg.item = "transport"
                    /\ leg.from = first.place /\ leg.to = last.place,
           ~ moved => first.place = last.place
    PROVE  LET s == <<first>> \o (IF moved THEN <<leg, last>> ELSE <<>>) IN
           Begun(s, first, R) /\ At(s, last.place) /\ Fasted(s)
<1> DEFINE s == <<first>> \o (IF moved THEN <<leg, last>> ELSE <<>>)
<1>1. Begun(<<first>>, first, R) /\ At(<<first>>, first.place) /\ Fasted(<<first>>)
  BY FirstStop
<1>2. CASE ~ moved
  <2>1. s = <<first>>
    BY <1>2
  <2> QED BY <2>1, <1>1, <1>2
<1>3. CASE moved
  <2> DEFINE s1 == <<first>> \o <<leg>>
             s2 == s1 \o <<last>>
  <2>1. s2 = s
    BY <1>3
  <2>2. /\ Begun(s1, first, R) /\ Towards(s1, leg.to) /\ Fasted(s1)
    BY <1>1, <1>3, PushTransport
  <2> HIDE DEF s1
  <2>3. last # LunchBreak /\ last.item # "transport" /\ last.item # "point"
    BY DEF LunchBreak
  <2>4. Begun(s2, first, R) /\ At(s2, leg.to) /\ Fasted(s2)
    BY <2>2, <2>3, <1>3, PushStop
  <2> QED BY <2>1, <2>4, <1>3
<1> QED BY <1>2, <1>3

\* After its points, a day returns to its hotel.
LEMMA DayEnds ==
    ASSUME NEW first, NEW R, NEW s, NEW x, Begun(s, first, R), At(s, x),
           NEW leg \in R, leg \in Items, leg.item = "transport", leg.from = x,
           NEW last \in Items, last.item = "hotel", last.place = leg.to
    PROVE  LET t == s \o <<leg>> \o <<last>> IN
           /\ Begun(t, first, R) /\ t[Len(t)] = last
           /\ (Fasted(s) => Fasted(t)) /\ (Fed(s) => Fed(t))
<1> DEFINE s1 == s \o <<leg>>
           t == s1 \o <<last>>
<1>1. /\ Begun(s1, first, R) /\ Towards(s1, leg.to)
      /\ (Fasted(s) => Fasted(s1)) /\ (Fed(s) => Fed(s1))
  BY PushTransport
<1> HIDE DEF s1
<1>2. last # LunchBreak /\ last.item # "transport" /\ last.item # "point"
  BY DEF LunchBreak
<1>3. /\ Begun(t, first, R)
      /\ (Fasted(s1) => Fasted(t)) /\ (Fed(s1) => Fed(t))
  BY <1>1, <1>2, PushStop
<1>4. s1 \in Seq(Items)
  BY <1>1 DEF Begun
<1>5. t[Len(t)] = last
  BY <1>4, PushFacts
<1> QED BY <1>1, <1>3, <1>5 DEF s1

\* The sequence s runs from start to end by the transports of R, with one lunch
\* unless the hint names none of the points.
RunsFrom(s, start, end, R, points, hint) ==
    /\ Begun(s, start, R) /\ s[Len(s)] = end
    /\ Fed(s) \/ (Fasted(s) /\ hint \notin {Null} \cup Range(points))

\* The sequence of a day with points: from the first hotel over every point to
\* the last one, by the day's legs, with one lunch unless the hint names a
\* point of another day.
LEMMA VisitDay ==
    ASSUME NEW start \in Bookings, NEW end \in Bookings,
           NEW hotel \in Hotels, NEW previous \in Hotels \cup {Null},
           end.hotel = hotel,
           start.hotel = IF previous = Null THEN hotel ELSE previous,
           NEW points \in Seq(Points), points # <<>>, Distinct(points),
           NEW hint \in Points \cup {Null}
    PROVE  RunsFrom(DaySequence(start, end, previous, hotel, points, hint),
                    HotelStop(start), HotelStop(end),
                    Range(DayItems(previous, hotel, points)), points, hint)
<1> DEFINE legs == DayItems(previous, hotel, points)
           n == Len(points)
           off == Moved(previous, hotel)
           place == PlaceAfter(hotel, points)
           moved == off = 1
           lunch == LunchArrangement(points)
           lunched == Lunched(points, hint)
           first == HotelStop(start)
           last == HotelStop(end)
           R == Range(legs)
           q == [i \in DOMAIN points |-> VisitItems(i, off, legs, points, lunch, hint)]
           s == DaySequence(start, end, previous, hotel, points, hint)
<1>1. /\ n \in Nat \ {0} /\ off \in {0, 1} /\ DOMAIN legs = 1..(n + 1 + off)
      /\ \A k \in 1..(n + 1 + off) :
            legs[k] \in Items /\ legs[k].item = "transport" /\ legs[k] \in R
      /\ off = 1 => legs[1].from = previous /\ legs[1].to = hotel
      /\ \A i \in 1..n : legs[i + off].from = place[i - 1] /\ legs[i + off].to = place[i]
      /\ legs[n + 1 + off].from = place[n] /\ legs[n + 1 + off].to = hotel
  BY LegItems
<1>2. /\ lunch.break \in BOOLEAN
      /\ lunch.break => \A i \in 1..n : lunch.at # i
      /\ lunched \in [1..n -> BOOLEAN]
      /\ \A j, k \in 1..n : lunched[j] /\ lunched[k] => j = k
      /\ (\E j \in 1..n : lunched[j]) \/ hint \notin {Null} \cup Range(points)
  BY OneLunch
<1>3. \A i \in 1..n : lunched[i] <=>
         \/ lunch.break /\ hint = points[i]
         \/ lunch.at = i
         \/ lunch.break /\ hint = Null /\ i - 1 = n \div 2
  BY DEF Lunched
<1>4. /\ DOMAIN points = 1..n
      /\ \A i \in 1..n : points[i] \in Points /\ place[i] = points[i]
      /\ place[0] = hotel
      /\ Null \notin Points
  BY <1>1, PlannerConstants DEF Nodes, Places, PlaceAfter
<1>5. /\ first \in Items /\ first.item = "hotel" /\ first.place = start.hotel
      /\ last \in Items /\ last.item = "hotel" /\ last.place = hotel
  BY StopItems
<1>6. legs # <<>>
  <2>1. 1 \in DOMAIN legs
    BY <1>1
  <2> QED BY <2>1
<1>7. moved <=> previous \notin {Null, hotel}
  BY DEF Moved
<1>8. s = Assembled(start, end, off, legs, points, lunch, hint)
  <2>1. s = BuildDaySequence(start, end, previous \notin {Null, hotel},
                             legs, points, lunch, hint)
    BY DEF DaySequence
  <2> HIDE DEF legs, lunch, s
  <2> QED BY <1>6, <2>1, SequenceParts
<1> DEFINE s0 == <<first>> \o (IF moved THEN <<legs[1], last>> ELSE <<>>)
<1> HIDE DEF legs, n, off, place, lunch, lunched, first, last, R
<1>9. Begun(s0, first, R) /\ At(s0, place[0]) /\ Fasted(s0)
  <2>1. moved => /\ legs[1] \in R /\ legs[1] \in Items /\ legs[1].item = "transport"
                 /\ legs[1].from = first.place /\ legs[1].to = last.place
    <3>1. moved => previous \notin {Null, hotel} /\ start.hotel = previous
      BY <1>7
    <3>2. 1 \in 1..(n + 1 + off)
      BY <1>1
    <3> QED BY <3>1, <3>2, <1>1, <1>5
  <2>2. ~ moved => first.place = last.place
    <3>1. ~ moved => previous \in {Null, hotel}
      BY <1>7
    <3> QED BY <3>1, <1>5
  <2>3. moved \in BOOLEAN
    OBVIOUS
  <2>4. Begun(s0, first, R) /\ At(s0, last.place) /\ Fasted(s0)
    BY <1>5, <2>1, <2>2, <2>3, DayStarts
  <2> QED BY <2>4, <1>4, <1>5
<1> HIDE DEF s0
<1>10. Len(q) = n
  <2>1. DOMAIN q = 1..n /\ q = [i \in 1..n |-> q[i]]
    BY <1>4
  <2>2. n \in Nat
    BY <1>1
  <2> HIDE DEF q
  <2>3. \E T : q \in [1..n -> T]
    <3>1. q \in [1..n -> {q[i] : i \in 1..n}]
      BY <2>1
    <3> QED BY <3>1
  <2> QED BY <2>1, <2>2, <2>3
<1>11. ASSUME NEW i \in 1..n
       PROVE  Takes(q[i], first, R, place[i - 1], place[i], lunched[i])
  <2> DEFINE leg == legs[i + off]
             before == lunch.break /\ hint = points[i]
             after == lunch.break /\ hint = Null /\ i - 1 = n \div 2
             visit == [item |-> "point", place |-> points[i], lunch |-> lunch.at = i]
  <2>1. i + off \in 1..(n + 1 + off)
    BY <1>1
  <2>2. /\ leg \in R /\ leg \in Items /\ leg.item = "transport"
        /\ leg.from = place[i - 1] /\ leg.to = place[i]
    BY <2>1, <1>1
  <2>3. /\ visit \in Items /\ visit.item = "point" /\ visit.place = leg.to
        /\ visit.lunch = (lunch.at = i)
    <3>1. points[i] \in Points /\ points[i] = leg.to
      BY <1>4, <2>2
    <3>2. visit \in Items
      BY <3>1 DEF Items
    <3> QED BY <3>1, <3>2
  <2>4. q[i] = Round(leg, before, visit, after)
    <3>1. q[i] = VisitItems(i, off, legs, points, lunch, hint)
      BY <1>4
    <3>2. LegAt(legs, i + off) = <<leg>>
      BY <2>1, <1>1 DEF LegAt
    <3> QED BY <3>1, <3>2 DEF VisitItems, Round, n
  <2>5. before \in BOOLEAN /\ after \in BOOLEAN /\ visit.lunch \in BOOLEAN
    BY <1>2
  <2>6. ~ (before /\ after)
    <3>1. points[i] # Null
      BY <1>4
    <3> QED BY <3>1
  <2>7. ~ (visit.lunch /\ (before \/ after))
    BY <1>2
  <2>8. lunched[i] = (before \/ visit.lunch \/ after)
    <3>1. lunched[i] <=> before \/ (lunch.at = i) \/ after
      BY <1>3
    <3>2. lunched[i] \in BOOLEAN
      BY <1>2
    <3> QED BY <3>1, <3>2, <2>3
  <2> HIDE DEF leg, before, after, visit, q
  <2>9. PICK x, y, lunches : x = place[i - 1] /\ y = place[i] /\ lunches = lunched[i]
    OBVIOUS
  <2>10. Takes(Round(leg, before, visit, after), first, R, x, y, lunches)
    <3>1. leg \in R /\ leg \in Items /\ leg.item = "transport"
      BY <2>2
    <3>2. leg.from = x /\ leg.to = y
      BY <2>2, <2>9
    <3>3. visit \in Items /\ visit.item = "point" /\ visit.place = y
      BY <2>2, <2>3, <2>9
    <3>4. lunches = (before \/ visit.lunch \/ after)
      BY <2>8, <2>9
    <3> QED BY <3>1, <3>2, <3>3, <3>4, <2>5, <2>6, <2>7, RoundTakes, Zenon
  <2> QED BY <2>4, <2>9, <2>10
<1> DEFINE flat == FlattenSeq(q)
           s1 == s0 \o flat
<1>12. After(s1, first, R, place, lunched, n)
  <2> HIDE DEF q, moved
  <2> QED BY <1>1, <1>2, <1>9, <1>10, <1>11, PushRounds
<1>13. s = s1 \o <<legs[n + 1 + off]>> \o <<last>>
  <2>1. LegAt(legs, n + 1 + off) = <<legs[n + 1 + off]>>
    BY <1>1 DEF LegAt
  <2> QED BY <1>8, <2>1 DEF Assembled, s0, first, last, n
<1> HIDE DEF s1, s, q, moved
<1>14. /\ Begun(s, first, R) /\ s[Len(s)] = last
       /\ (Fasted(s1) => Fasted(s)) /\ (Fed(s1) => Fed(s))
  <2>1. Begun(s1, first, R) /\ At(s1, place[n])
    BY <1>12 DEF After
  <2>2. n + 1 + off \in 1..(n + 1 + off)
    BY <1>1
  <2>3. /\ legs[n + 1 + off] \in R /\ legs[n + 1 + off] \in Items
        /\ legs[n + 1 + off].item = "transport"
        /\ legs[n + 1 + off].from = place[n] /\ legs[n + 1 + off].to = last.place
    BY <2>2, <1>1, <1>5
  <2> QED BY <2>1, <2>3, <1>5, <1>13, DayEnds
<1>15. Fed(s) \/ (Fasted(s) /\ hint \notin {Null} \cup Range(points))
  <2>1. CASE \E j \in 1..n : lunched[j]
    BY <2>1, <1>12, <1>14 DEF After
  <2>2. CASE \A j \in 1..n : ~ lunched[j]
    BY <2>2, <1>2, <1>12, <1>14 DEF After
  <2> QED BY <2>1, <2>2
<1> QED BY <1>14, <1>15 DEF RunsFrom, s, first, last, R, legs

-----------------------------------------------------------------------------
\* The legs of a day join two different places of it.
LEMMA LegsDiffer ==
    ASSUME NEW N, NEW hotel \in N, NEW previous \in N \cup {Null},
           NEW points \in Seq(N), Distinct(points), hotel \notin Range(points)
    PROVE  \A leg \in Range(LegPairs(previous, hotel, points)) :
              leg \in N \X N /\ leg[1] # leg[2]
<1> DEFINE legs == LegPairs(previous, hotel, points)
<1>1. CASE points = <<>>
  <2>1. legs = <<>>
    BY <1>1 DEF LegPairs
  <2> QED BY <2>1 DEF Range
<1>2. CASE points # <<>>
  <2> DEFINE n == Len(points)
             off == Moved(previous, hotel)
             place == PlaceAfter(hotel, points)
  <2>1. LegsLead(legs, N, previous, hotel, n, off, place)
    BY <1>2, LegsOfDay
  <2>2. /\ DOMAIN points = 1..n
        /\ \A i \in 1..n : points[i] # hotel
    BY DEF Range
  <2>3. /\ place[0] = hotel
        /\ \A i \in 1..n : place[i] = points[i]
    BY DEF PlaceAfter
  <2>4. off = 1 => previous # hotel
    BY DEF Moved
  <2> HIDE DEF legs, n, off, place
  <2>5. /\ n \in Nat \ {0} /\ off \in {0, 1}
        /\ legs \in Seq(N \X N) /\ Len(legs) = n + 1 + off
        /\ off = 1 => legs[1] = <<previous, hotel>>
        /\ \A i \in 1..n : legs[i + off] = <<place[i - 1], place[i]>>
        /\ legs[n + 1 + off] = <<place[n], hotel>>
    BY <2>1 DEF LegsLead
  <2>6. DOMAIN legs = 1..(n + 1 + off) /\ \A k \in DOMAIN legs : legs[k] \in N \X N
    BY <2>5
  <2>7. ASSUME NEW k \in 1..(n + 1 + off) PROVE legs[k][1] # legs[k][2]
    <3>1. CASE k = 1 /\ off = 1
      BY <3>1, <2>4, <2>5
    <3>2. CASE k = n + 1 + off
      <4>1. n \in 1..n
        BY <2>5
      <4> QED BY <3>2, <4>1, <2>2, <2>3, <2>5
    <3>3. CASE ~ (k = 1 /\ off = 1) /\ k # n + 1 + off
      <4>1. PICK i \in 1..n : k = i + off
        <5>1. k - off \in 1..n /\ k = (k - off) + off
          BY <3>3, <2>5
        <5> QED BY <5>1
      <4>2. legs[k] = <<place[i - 1], place[i]>>
        BY <4>1, <2>5
      <4>3. CASE i = 1
        BY <4>2, <4>3, <2>2, <2>3
      <4>4. CASE i # 1
        <5>1. i - 1 \in 1..n /\ i - 1 # i
          BY <4>4, <2>5
        <5>2. points[i - 1] # points[i]
          BY <5>1, <2>2 DEF Distinct
        <5> QED BY <5>1, <5>2, <4>2, <2>3
      <4> QED BY <4>3, <4>4
    <3> QED BY <3>1, <3>2, <3>3
  <2> QED BY <2>6, <2>7 DEF Range, legs
<1> QED BY <1>1, <1>2

\* The bookings of a trip in the city's hotels.
LEMMA BookingsTyped ==
    ASSUME NEW p, IsTrip(p), \A d \in DOMAIN p : p[d].hotel \in Hotels
    PROVE  BuildHotelBookingSegments(p) \subseteq Bookings
<1> SUFFICES ASSUME NEW b \in BuildHotelBookingSegments(p) PROVE b \in Bookings
  OBVIOUS
<1>1. PICK r \in HotelRuns(p) : b = Booking(r[1], r[2], p[r[1]].hotel)
  BY DEF BuildHotelBookingSegments
<1>2. r[1] \in DOMAIN p /\ r[2] \in DOMAIN p
  BY DEF HotelRuns
<1>3. r[1] \in Nat /\ r[2] \in Nat
  BY <1>2 DEF IsTrip
<1>4. p[r[1]].hotel \in Hotels
  BY <1>2
<1> QED BY <1>1, <1>3, <1>4 DEF Booking, Bookings

\* The booking a day ends with holds for its night, and for the night before
\* when that was spent in the same hotel, or was the first of all.
LEMMA EveningBooked ==
    ASSUME IsTrip(plan), bookings = BuildHotelBookingSegments(plan),
           NEW d \in DOMAIN plan
    PROVE  LET b == DayHotelBooking(plan[d].hotel, d) IN
           /\ b \in bookings /\ b.hotel = plan[d].hotel
           /\ b.checkIn <= d /\ d < b.checkOut /\ d - 1 < b.checkOut
           /\ d = 1 \/ plan[d - 1].hotel = plan[d].hotel => b.checkIn <= d - 1
<1> DEFINE hotel == plan[d].hotel
           b == DayHotelBooking(hotel, d)
           Of(r) == Booking(r[1], r[2], plan[r[1]].hotel)
<1>0. /\ Len(plan) \in Nat /\ DOMAIN plan = 1..Len(plan) /\ d \in 1..Len(plan)
      /\ \A r \in HotelRuns(plan) : Of(r) \in bookings
      /\ \A c \in bookings : \E r \in HotelRuns(plan) : c = Of(r)
  BY DEF IsTrip, BuildHotelBookingSegments
<1>1. ASSUME NEW r \in HotelRuns(plan)
      PROVE  /\ r[1] \in 1..Len(plan) /\ r[2] \in 1..Len(plan) /\ r[1] <= r[2]
             /\ r[1] = 1 \/ plan[r[1] - 1].hotel # plan[r[1]].hotel
             /\ Of(r).hotel = plan[r[1]].hotel /\ Of(r).from = r[1] /\ Of(r).to = r[2]
             /\ Of(r).checkIn = (IF r[1] = 1 THEN 0 ELSE r[1]) /\ Of(r).checkOut = r[2] + 1
  BY <1>0 DEF HotelRuns, Booking
<1> HIDE DEF Of
<1>2. PICK r \in HotelRuns(plan) : r[1] <= d /\ d <= r[2] /\ plan[r[1]].hotel = hotel
  BY DayInRun
<1>3. b \in bookings /\ b.hotel = hotel /\ b.from <= d /\ d <= b.to
  <2>1. /\ Of(r) \in bookings /\ Of(r).hotel = hotel
        /\ Of(r).from <= d /\ d <= Of(r).to
    BY <1>0, <1>1, <1>2
  <2> QED BY <2>1 DEF DayHotelBooking
<1> HIDE DEF b
<1>4. PICK t \in HotelRuns(plan) : b = Of(t)
  BY <1>0, <1>3
<1>5. /\ t[1] <= d /\ d <= t[2] /\ plan[t[1]].hotel = hotel
      /\ t[1] \in 1..Len(plan) /\ t[2] \in 1..Len(plan)
      /\ b.checkIn = (IF t[1] = 1 THEN 0 ELSE t[1]) /\ b.checkOut = t[2] + 1
  BY <1>1, <1>3, <1>4
<1>6. b.checkIn <= d /\ d < b.checkOut /\ d - 1 < b.checkOut
  BY <1>0, <1>5
<1>7. ASSUME d = 1 \/ plan[d - 1].hotel = hotel PROVE b.checkIn <= d - 1
  <2>1. t[1] = 1 \/ t[1] # d
    BY <1>1, <1>5, <1>7
  <2> QED BY <2>1, <1>0, <1>5
<1> QED BY <1>3, <1>6, <1>7 DEF b

\* The booking a day starts with is of the hotel the traveller slept in, and
\* holds for the night before.
LEMMA MorningBooked ==
    ASSUME IsTrip(plan), bookings = BuildHotelBookingSegments(plan),
           \A d \in DOMAIN plan : plan[d].hotel \in Hotels,
           NEW d \in DOMAIN plan
    PROVE  LET previous == PreviousHotel(d)
               b == DayStartHotelBooking(previous, plan[d].hotel, d) IN
           /\ b \in bookings
           /\ b.hotel = IF previous = Null THEN plan[d].hotel ELSE previous
           /\ b.checkIn <= d - 1 /\ d - 1 < b.checkOut
<1> DEFINE previous == PreviousHotel(d)
           hotel == plan[d].hotel
           b == DayStartHotelBooking(previous, hotel, d)
           evening == DayHotelBooking(hotel, d)
           left == {c \in bookings : c.hotel = previous /\ c.checkOut = d}
<1>0. Len(plan) \in Nat /\ DOMAIN plan = 1..Len(plan) /\ d \in 1..Len(plan)
  BY DEF IsTrip
<1>1. /\ evening \in bookings /\ evening.hotel = hotel
      /\ evening.checkIn <= d /\ d < evening.checkOut /\ d - 1 < evening.checkOut
      /\ d = 1 \/ plan[d - 1].hotel = hotel => evening.checkIn <= d - 1
  BY EveningBooked
<1>2. Null \notin Hotels
  BY PlannerConstants DEF Nodes, Places
<1>3. CASE d = 1
  <2>1. previous = Null
    BY <1>3 DEF PreviousHotel
  <2>2. b = evening
    BY <2>1 DEF DayStartHotelBooking
  <2> QED BY <2>1, <2>2, <1>1, <1>3
<1>4. CASE d # 1 /\ plan[d - 1].hotel = hotel
  <2>1. previous = hotel /\ previous # Null
    <3>1. previous = plan[d - 1].hotel
      BY <1>4 DEF PreviousHotel
    <3>2. hotel \in Hotels
      OBVIOUS
    <3> QED BY <3>1, <3>2, <1>2, <1>4
  <2>2. b = evening
    BY <2>1 DEF DayStartHotelBooking
  <2> QED BY <2>1, <2>2, <1>1, <1>4
<1>5. CASE d # 1 /\ plan[d - 1].hotel # hotel
  <2>0. d - 1 \in 1..Len(plan)
    BY <1>0, <1>5
  <2>1. previous = plan[d - 1].hotel /\ previous \in Hotels
    BY <1>5, <2>0, <1>0 DEF PreviousHotel
  <2>2. PICK r \in HotelRuns(plan) :
            r[1] <= d - 1 /\ d - 1 <= r[2] /\ plan[r[1]].hotel = plan[d - 1].hotel
    BY <2>0, <1>0, DayInRun
  <2>3. /\ r[1] \in 1..Len(plan) /\ r[2] \in 1..Len(plan)
        /\ \A i \in r[1]..r[2] : plan[i].hotel = plan[r[1]].hotel
    BY <1>0 DEF HotelRuns
  <2>4. r[2] = d - 1
    <3>1. ASSUME d <= r[2] PROVE FALSE
      <4>1. d \in r[1]..r[2]
        BY <3>1, <2>2, <2>3, <1>0
      <4> QED BY <4>1, <2>2, <2>3, <1>5
    <3> QED BY <3>1, <2>2, <2>3, <1>0
  <2> DEFINE c == Booking(r[1], r[2], plan[r[1]].hotel)
  <2>5. c \in bookings
    BY DEF BuildHotelBookingSegments
  <2>6. c.hotel = previous /\ c.checkOut = d
    BY <2>1, <2>2, <2>3, <2>4, <1>0 DEF Booking
  <2>7. left # {}
    BY <2>5, <2>6
  <2>8. previous \notin {Null, hotel}
    BY <2>1, <1>2, <1>5
  <2>9. b = CHOOSE x \in left : TRUE
    BY <2>7, <2>8 DEF DayStartHotelBooking
  <2>10. b \in left
    BY <2>7, <2>9
  <2>11. b \in bookings /\ b.hotel = previous /\ b.checkOut = d
    BY <2>10
  <2> HIDE DEF b, c
  <2>12. PICK t \in HotelRuns(plan) : b = Booking(t[1], t[2], plan[t[1]].hotel)
    BY <2>11 DEF BuildHotelBookingSegments
  <2>13. t[1] \in 1..Len(plan) /\ t[2] \in 1..Len(plan) /\ t[1] <= t[2]
    BY <1>0 DEF HotelRuns
  <2>14. b.checkIn = (IF t[1] = 1 THEN 0 ELSE t[1]) /\ b.checkOut = t[2] + 1
    BY <2>12 DEF Booking
  <2>15. b.checkIn <= d - 1 /\ d - 1 < b.checkOut
    BY <2>11, <2>13, <2>14, <1>0
  <2> QED BY <2>8, <2>11, <2>15 DEF b
<1> QED BY <1>3, <1>4, <1>5

\* A day without points is spent between its two hotels.
LEMMA EmptyDay ==
    ASSUME NEW start \in Bookings, NEW end \in Bookings,
           NEW hotel, NEW previous, NEW hint
    PROVE  DaySequence(start, end, previous, hotel, <<>>, hint)
              = <<HotelStop(start)>> \o <<HotelStop(end)>>
<1> DEFINE legs == DayItems(previous, hotel, <<>>)
           lunch == LunchArrangement(<<>>)
<1>1. legs = <<>>
  BY DEF DayItems, LegPairs
<1>2. DOMAIN (<<>>) = {} /\ Len(<<>>) = 0
  OBVIOUS
<1>3. ASSUME NEW q, q = <<>> PROVE FlattenSeq(q) = <<>>
  BY <1>2, <1>3 DEF FlattenSeq
<1> HIDE DEF legs, lunch
<1>4. BuildDaySequence(start, end, previous \notin {Null, hotel}, legs, <<>>, lunch, hint)
        = <<HotelStop(start)>> \o <<>> \o <<>> \o <<>> \o <<HotelStop(end)>>
  BY <1>1, <1>2, <1>3 DEF BuildDaySequence
<1>5. <<HotelStop(start)>> \o <<>> = <<HotelStop(start)>>
  <2>1. <<HotelStop(start)>> \in Seq({HotelStop(start)})
    OBVIOUS
  <2> QED BY <2>1, ConcatEmptySeq
<1> QED BY <1>4, <1>5 DEF DaySequence, legs, lunch

-----------------------------------------------------------------------------
\* What the optimizer answers names days, and no point twice on one day.
TripFits(p) == p \in Seq(Days) /\ \A d \in DOMAIN p : Distinct(p[d].points)

LEMMA DayTyped ==
    ASSUME NEW p \in Seq(Days), NEW d \in DOMAIN p
    PROVE  /\ p[d] \in Days /\ p[d].hotel \in Hotels \cup {Unknown}
           /\ p[d].points \in Seq(Points \cup {Unknown}) /\ p[d].hint \in Points \cup {Null}
<1>1. p[d] \in Days
  OBVIOUS
<1>2. ASSUME NEW r \in Days
      PROVE  /\ r.hotel \in Hotels \cup {Unknown}
             /\ r.points \in Seq(Points \cup {Unknown}) /\ r.hint \in Points \cup {Null}
  BY DEF Days
<1> QED BY <1>1, <1>2

LEMMA PlanFits ==
    ASSUME chosen \subseteq Points, hotels \subseteq Hotels, NEW p \in Plans
    PROVE  TripFits(p)
<1>1. PICK n \in 1..MaxDays : p \in TripsOf(n)
  BY DEF Plans
<1>2. PICK h \in [1..n -> hotels], v \in Visits(n), hint \in chosen \cup {Null} :
          p = Trip(n, h, v, hint)
  BY <1>1 DEF TripsOf
<1>3. n \in Nat
  BY PlannerConstants
<1>4. p = [d \in 1..n |-> [hotel |-> h[d], points |-> v[d], hint |-> hint]]
  BY <1>2 DEF Trip
<1>5. ASSUME NEW d \in 1..n
      PROVE  v[d] \in Seq(Points) /\ Distinct(v[d])
  <2>1. v[d] \in UNION {SetToSeqs(S) : S \in SUBSET chosen}
    BY DEF Visits
  <2>2. PICK S \in SUBSET chosen : v[d] \in SetToSeqs(S)
    BY <2>1
  <2>3. IsFiniteSet(S)
    BY <2>2, FS_Subset, PlannerConstants
  <2>4. Cardinality(S) \in Nat
    BY <2>3, FS_CardinalityType
  <2>5. PICK m \in Nat : /\ v[d] \in [1..m -> S]
                         /\ \A i, j \in 1..m : i # j => v[d][i] # v[d][j]
    BY <2>2, <2>4 DEF SetToSeqs
  <2>6. v[d] \in [1..m -> Points]
    BY <2>5
  <2>7. v[d] \in Seq(Points)
    BY <2>6
  <2>8. DOMAIN v[d] = 1..m
    BY <2>5
  <2> QED BY <2>5, <2>7, <2>8 DEF Distinct
<1>6. ASSUME NEW d \in 1..n
      PROVE  p[d] \in Days /\ Distinct(p[d].points)
  <2>1. p[d] = [hotel |-> h[d], points |-> v[d], hint |-> hint]
    BY <1>4
  <2>2. h[d] \in Hotels \cup {Unknown} /\ hint \in Points \cup {Null}
    OBVIOUS
  <2>3. v[d] \in Seq(Points \cup {Unknown})
    BY <1>5
  <2>4. p[d] \in Days
    BY <2>1, <2>2, <2>3 DEF Days
  <2> QED BY <2>1, <2>4, <1>5
<1>7. p \in [1..n -> Days]
  BY <1>4, <1>6
<1>8. p \in Seq(Days) /\ DOMAIN p = 1..n
  BY <1>3, <1>7
<1> QED BY <1>6, <1>8 DEF TripFits

LEMMA SolutionFits ==
    ASSUME chosen \subseteq Points, hotels \subseteq Hotels, NEW q \in Solutions
    PROVE  TripFits(q)
<1>1. CASE q \in Plans
  BY <1>1, PlanFits
<1>2. CASE \E p \in Plans : q \in Garbled(p)
  <2>1. PICK p \in Plans : q \in Garbled(p)
    BY <1>2
  <2>2. p \in Seq(Days) /\ \A d \in DOMAIN p : Distinct(p[d].points)
    BY PlanFits DEF TripFits
  <2>3. \A d \in DOMAIN p :
           /\ p[d] \in Days /\ p[d].hotel \in Hotels \cup {Unknown}
           /\ p[d].points \in Seq(Points \cup {Unknown}) /\ p[d].hint \in Points \cup {Null}
    BY <2>2, DayTyped
  <2>4. CASE \E d \in DOMAIN p : q = [p EXCEPT ![d].hotel = Unknown]
    <3>1. PICK d \in DOMAIN p : q = [p EXCEPT ![d].hotel = Unknown]
      BY <2>4
    <3>2. PICK r : r = [p[d] EXCEPT !.hotel = Unknown]
      OBVIOUS
    <3>3. q = [p EXCEPT ![d] = r]
      BY <3>1, <3>2
    <3>4. r \in Days /\ r.points = p[d].points
      BY <2>3, <3>2 DEF Days
    <3>5. q \in Seq(Days) /\ DOMAIN q = DOMAIN p
      <4>1. d \in 1..Len(p)
        BY <2>2
      <4>2. [p EXCEPT ![d] = r] \in Seq(Days)
        BY <2>2, <3>4, <4>1, ExceptSeq
      <4> QED BY <3>3, <4>2
    <3>6. \A e \in DOMAIN p : q[e].points = p[e].points
      BY <3>3, <3>4, <2>2
    <3> QED BY <3>5, <3>6, <2>2 DEF TripFits
  <2>5. CASE \E dx \in {dx \in (DOMAIN p) \X (chosen \cup {Unknown}) :
                           dx[2] \notin Range(p[dx[1]].points)} :
                q = [p EXCEPT ![dx[1]].points = Append(@, dx[2])]
    <3>1. PICK dx \in (DOMAIN p) \X (chosen \cup {Unknown}) :
              /\ dx[2] \notin Range(p[dx[1]].points)
              /\ q = [p EXCEPT ![dx[1]].points = Append(@, dx[2])]
      BY <2>5
    <3>2. PICK d, x : d = dx[1] /\ x = dx[2]
      OBVIOUS
    <3>3. d \in DOMAIN p /\ x \in Points \cup {Unknown} /\ x \notin Range(p[d].points)
      BY <3>1, <3>2
    <3>4. PICK s : s = p[d].points
      OBVIOUS
    <3>5. PICK t : t = Append(s, x)
      OBVIOUS
    <3>6. PICK r : r = [p[d] EXCEPT !.points = t]
      OBVIOUS
    <3>7. q = [p EXCEPT ![d] = r]
      BY <3>1, <3>2, <3>4, <3>5, <3>6
    <3>8. s \in Seq(Points \cup {Unknown}) /\ t \in Seq(Points \cup {Unknown})
      BY <2>3, <3>3, <3>4, <3>5
    <3>9. r \in Days /\ r.points = t
      BY <2>3, <3>3, <3>6, <3>8 DEF Days
    <3>10. q \in Seq(Days) /\ DOMAIN q = DOMAIN p
      <4>1. d \in 1..Len(p)
        BY <2>2, <3>3
      <4>2. [p EXCEPT ![d] = r] \in Seq(Days)
        BY <2>2, <3>9, <4>1, ExceptSeq
      <4> QED BY <3>7, <4>2
    <3>11. Distinct(t)
      <4>1. /\ Len(s) \in Nat /\ DOMAIN s = 1..Len(s) /\ DOMAIN t = 1..(Len(s) + 1)
            /\ \A i \in 1..Len(s) : t[i] = s[i]
            /\ t[Len(s) + 1] = x
        BY <3>5, <3>8
      <4>2. Distinct(s) /\ \A i \in DOMAIN s : s[i] # x
        BY <2>2, <3>3, <3>4 DEF Range
      <4>3. \A i \in DOMAIN t : i \in 1..Len(s) \/ i = Len(s) + 1
        BY <4>1
      <4> QED BY <4>1, <4>2, <4>3 DEF Distinct
    <3>12. \A e \in DOMAIN p : q[e].points = IF e = d THEN t ELSE p[e].points
      BY <3>7, <3>9, <2>2
    <3> QED BY <3>10, <3>11, <3>12, <2>2 DEF TripFits
  <2> QED BY <2>1, <2>4, <2>5 DEF Garbled
<1> QED BY <1>1, <1>2 DEF Solutions

\* What holds of the day assembled for day d of a trip.
DayFits(day, d, trip, noneMadeUp) ==
    /\ day \in [date : Nat, hotel : Hotels, sequence : Seq(Items)]
    /\ day.hotel = trip[d].hotel
    /\ Morning(day).checkIn <= d - 1 /\ d - 1 < Morning(day).checkOut
    /\ Evening(day).checkIn <= d /\ d < Evening(day).checkOut
    /\ Evening(day).place = day.hotel
    /\ d > 1 => Morning(day).place = trip[d - 1].hotel
    /\ trip[d].points # <<>> =>
          /\ Morning(day).item = "hotel" /\ Evening(day).item = "hotel"
          /\ Chained(day.sequence)
          /\ \/ Lunches(day) = 1
             \/ /\ trip[d].hint \notin {Null} \cup Range(trip[d].points)
                /\ Lunches(day) = 0
    /\ noneMadeUp =>
          \A k \in DOMAIN day.sequence :
              day.sequence[k].item = "transport" => ~ day.sequence[k].made

\* While days are assembled: the plan is a trip in the hotels as read, booked
\* night by night, and its rows are there if they were promised.
Assembling ==
    /\ IsTrip(plan) /\ TripFits(plan)
    /\ bookings = BuildHotelBookingSegments(plan)
    /\ \A d \in DOMAIN plan : plan[d].hotel \in hotels
    /\ promised => Covers(chosen \cup hotels, edges)
    /\ chosen \subseteq Points /\ hotels \subseteq Hotels

\* Legs between promised places have rows.
LEMMA RowsAreThere ==
    ASSUME Assembling, promised, NEW d \in DOMAIN plan,
           NEW previous \in hotels \cup {Null},
           Range(plan[d].points) \subseteq chosen,
           NEW leg \in Range(DayItems(previous, plan[d].hotel, plan[d].points))
    PROVE  ~ leg.made
<1> DEFINE N == chosen \cup hotels
           hotel == plan[d].hotel
           points == plan[d].points
           pairs == LegPairs(previous, hotel, points)
<1>1. hotel \in N /\ previous \in N \cup {Null} /\ Distinct(points)
  BY DEF Assembling, TripFits
<1>2. points \in Seq(Points \cup {Unknown})
  BY DayTyped DEF Assembling, TripFits
<1>3. points \in Seq(N)
  <2>1. \A i \in DOMAIN points : points[i] \in chosen
    BY DEF Range
  <2> QED BY <1>2, <2>1
<1>4. hotel \notin Range(points)
  <2>1. hotel \in Hotels /\ Range(points) \subseteq Points
    BY DEF Assembling
  <2> QED BY <2>1, PlannerConstants
<1>5. \A pair \in Range(pairs) : pair \in N \X N /\ pair[1] # pair[2]
  BY <1>1, <1>3, <1>4, LegsDiffer
<1>6. PICK k \in DOMAIN pairs : leg = GeneratedLeg(pairs[k])
  BY DEF DayItems, Range
<1>7. pairs[k] \in N \X N /\ pairs[k][1] # pairs[k][2]
  BY <1>5 DEF Range
<1> HIDE DEF pairs, N
<1>8. PICK a, b : a = pairs[k][1] /\ b = pairs[k][2] /\ pairs[k] = <<a, b>>
  BY <1>7
<1>9. <<a, b>> \in edges \/ <<b, a>> \in edges
  BY <1>7, <1>8 DEF Assembling, Covers, N
<1>10. ~ ResolveTransitEdge(<<a, b>>).made
  BY <1>9 DEF ResolveTransitEdge
<1> QED BY <1>6, <1>8, <1>10 DEF GeneratedLeg

LEMMA LunchesCounted ==
    ASSUME NEW day, NEW s, day.sequence = s
    PROVE  (Fed(s) => Lunches(day) = 1) /\ (Fasted(s) => Lunches(day) = 0)
<1>1. Lunches(day) = Cardinality(LunchesIn(s))
  BY DEF Lunches, LunchesIn
<1>2. Cardinality({}) = 0 /\ \A k : Cardinality({k}) = 1
  BY FS_EmptySet, FS_Singleton
<1> QED BY <1>1, <1>2 DEF Fed, Fasted

\* A finished day fits its plan.
LEMMA DayIsFit ==
    ASSUME Assembling, NEW d \in DOMAIN plan, Range(plan[d].points) \subseteq chosen
    PROVE  DayFits(GeneratedDay(d), d, plan, promised)
<1> DEFINE hotel == plan[d].hotel
           points == plan[d].points
           hint == plan[d].hint
           previous == PreviousHotel(d)
           start == DayStartHotelBooking(previous, hotel, d)
           end == DayHotelBooking(hotel, d)
           legs == DayItems(previous, hotel, points)
           s == DaySequence(start, end, previous, hotel, points, hint)
           day == GeneratedDay(d)
<1>1. /\ Len(plan) \in Nat /\ DOMAIN plan = 1..Len(plan) /\ d \in 1..Len(plan)
      /\ IsTrip(plan) /\ bookings = BuildHotelBookingSegments(plan)
      /\ \A e \in DOMAIN plan : plan[e].hotel \in hotels /\ plan[e].hotel \in Hotels
  BY DEF Assembling, IsTrip
<1>2. /\ hotel \in Hotels /\ hotel \in hotels /\ hint \in Points \cup {Null}
      /\ points \in Seq(Points) /\ Distinct(points)
  <2>1. points \in Seq(Points \cup {Unknown}) /\ hint \in Points \cup {Null}
    BY DayTyped DEF Assembling, TripFits
  <2>2. \A i \in DOMAIN points : points[i] \in Points
    BY DEF Range, Assembling
  <2>3. points \in Seq(Points)
    BY <2>1, <2>2
  <2> QED BY <2>1, <2>3, <1>1 DEF Assembling, TripFits
<1>3. /\ previous \in hotels \cup {Null} /\ previous \in Hotels \cup {Null}
      /\ d > 1 => previous = plan[d - 1].hotel /\ previous # Null
  <2>1. CASE d = 1
    BY <2>1 DEF PreviousHotel
  <2>2. CASE d # 1
    <3>1. d - 1 \in DOMAIN plan /\ previous = plan[d - 1].hotel
      BY <2>2, <1>1 DEF PreviousHotel
    <3>2. Null \notin Hotels
      BY PlannerConstants DEF Nodes, Places
    <3> QED BY <3>1, <3>2, <1>1
  <2> QED BY <2>1, <2>2
<1>4. bookings \subseteq Bookings
  BY <1>1, BookingsTyped
<1>5. /\ end \in Bookings /\ end.hotel = hotel
      /\ end.checkIn <= d /\ d < end.checkOut
  BY <1>1, <1>4, EveningBooked
<1>6. /\ start \in Bookings
      /\ start.hotel = IF previous = Null THEN hotel ELSE previous
      /\ start.checkIn <= d - 1 /\ d - 1 < start.checkOut
  BY <1>1, <1>4, MorningBooked
<1>7. day = [date |-> d, hotel |-> hotel, sequence |-> s]
  BY DEF GeneratedDay, DaySequence, DayItems, DayLegs
<1> HIDE DEF s, day, start, end, legs, previous, hotel, points, hint
<1>8. /\ s \in Seq(Items) /\ Len(s) \in Nat \ {0}
      /\ s[1] = HotelStop(start) /\ s[Len(s)] = HotelStop(end)
      /\ \A k \in DOMAIN s : s[k].item = "transport" => s[k] \in Range(legs)
      /\ points # <<>> =>
            /\ Chained(s)
            /\ Fed(s) \/ (Fasted(s) /\ hint \notin {Null} \cup Range(points))
  <2>1. CASE points = <<>>
    <3>1. s = <<HotelStop(start)>> \o <<HotelStop(end)>>
      BY <2>1, <1>5, <1>6, EmptyDay DEF s
    <3>2. /\ HotelStop(start) \in Items /\ HotelStop(start).item = "hotel"
          /\ HotelStop(end) \in Items /\ HotelStop(end).item = "hotel"
      BY <1>5, <1>6, StopItems
    <3>3. PICK one : one = <<HotelStop(start)>>
      OBVIOUS
    <3>4. one \in Seq(Items) /\ Len(one) = 1 /\ one[1] = HotelStop(start)
      BY <3>2, <3>3
    <3>5. /\ s \in Seq(Items) /\ Len(s) = 2 /\ DOMAIN s = 1..2
          /\ s[1] = HotelStop(start) /\ s[2] = HotelStop(end)
      BY <3>1, <3>2, <3>3, <3>4, PushFacts
    <3> QED BY <2>1, <3>2, <3>5
  <2>2. CASE points # <<>>
    <3>0. RunsFrom(s, HotelStop(start), HotelStop(end), Range(legs), points, hint)
      BY <2>2, <1>2, <1>3, <1>5, <1>6, VisitDay DEF s, legs
    <3>1. /\ Begun(s, HotelStop(start), Range(legs)) /\ s[Len(s)] = HotelStop(end)
          /\ Fed(s) \/ (Fasted(s) /\ hint \notin {Null} \cup Range(points))
      BY <3>0 DEF RunsFrom
    <3>2. /\ s \in Seq(Items) /\ Len(s) # 0 /\ s[1] = HotelStop(start) /\ Chained(s)
          /\ \A k \in DOMAIN s : s[k].item = "transport" => s[k] \in Range(legs)
      BY <3>1 DEF Begun
    <3> QED BY <3>1, <3>2
  <2> QED BY <2>1, <2>2
<1>9. Morning(day) = HotelStop(start) /\ Evening(day) = HotelStop(end)
  BY <1>7, <1>8 DEF Morning, Evening
<1>10. day \in [date : Nat, hotel : Hotels, sequence : Seq(Items)]
  BY <1>1, <1>2, <1>7, <1>8
<1>11. /\ Morning(day).checkIn <= d - 1 /\ d - 1 < Morning(day).checkOut
       /\ Evening(day).checkIn <= d /\ d < Evening(day).checkOut
       /\ Evening(day).place = hotel
       /\ Morning(day).item = "hotel" /\ Evening(day).item = "hotel"
       /\ Morning(day).place = start.hotel
  BY <1>5, <1>6, <1>9 DEF HotelStop
<1>12. d > 1 => Morning(day).place = plan[d - 1].hotel
  BY <1>3, <1>6, <1>11
<1>13. points # <<>> =>
          /\ Chained(day.sequence)
          /\ \/ Lunches(day) = 1
             \/ hint \notin {Null} \cup Range(points) /\ Lunches(day) = 0
  BY <1>7, <1>8, LunchesCounted
<1>14. promised =>
          \A k \in DOMAIN day.sequence :
              day.sequence[k].item = "transport" => ~ day.sequence[k].made
  <2>1. promised => \A leg \in Range(legs) : ~ leg.made
    BY <1>3, RowsAreThere DEF legs, points, hotel
  <2> QED BY <2>1, <1>7, <1>8
<1> QED BY <1>7, <1>10, <1>11, <1>12, <1>13, <1>14 DEF DayFits, day, hotel, points, hint

-----------------------------------------------------------------------------
\* Every day assembled so far fits the day of the plan it was made from.
DaysFit ==
    \A d \in DOMAIN days : d \in DOMAIN plan /\ DayFits(days[d], d, plan, promised)

\* Every day assembled fits the plan; days are assembled only from a trip in the
\* hotels as read, and what was promised is there; there are none before it.
TripInv ==
    /\ TypeOK
    /\ stage \in {"points", "hotels", "edges", "solve"} => days = <<>>
    /\ stage \in {"ask", "wait"} => Assembling /\ Len(days) < Len(plan)
    /\ stage = "solve" /\ promised => Covers(chosen \cup hotels, edges)
    /\ Covers(covered, ready)
    /\ DaysFit

LEMMA TripInit == Init => TripInv
<1> SUFFICES ASSUME Init PROVE TripInv
  OBVIOUS
<1>1. /\ published = Places /\ ready \in EdgeSets
      /\ op = "check" /\ stage = "idle" /\ chosen = {} /\ hotels = {} /\ edges = {}
      /\ plan = <<>> /\ bookings = {} /\ directions = <<>> /\ days = <<>>
      /\ covered = {} /\ promised = FALSE /\ edits = 0
  BY DEF Init
<1>2. ready \subseteq Places \X Places /\ edits \in 0..MaxEdits
  BY <1>1, PlannerConstants
<1>3. /\ \A S : <<>> \in Seq(S)
      /\ Len(<<>>) = 0 /\ DOMAIN (<<>>) = {}
  OBVIOUS
<1>4. TypeOK
  <2>1. /\ plan \in Seq(Days) /\ Len(days) <= Len(plan)
        /\ days \in Seq([date : Nat, hotel : Hotels, sequence : Seq(Items)])
        /\ DOMAIN directions = {}
    BY <1>1, <1>3
  <2> QED BY <1>1, <1>2, <2>1 DEF TypeOK
<1>5. Covers(covered, ready)
  BY <1>1 DEF Covers
<1>6. DaysFit
  BY <1>1, <1>3 DEF DaysFit
<1> QED BY <1>1, <1>4, <1>5, <1>6 DEF TripInv

\* Nothing of the days, the plan or the promise changes.
LEMMA DaysStayFit ==
    ASSUME DaysFit, days' = days, plan' = plan, promised' = promised
    PROVE  DaysFit'
  BY DEF DaysFit

\* The legs asked about on a day join places.
LEMMA AskedPairs ==
    ASSUME TypeOK, Assembling, NEW d \in DOMAIN plan
    PROVE  Asked(d) \subseteq Pairs
<1> DEFINE hotel == plan[d].hotel
           points == plan[d].points
           previous == PreviousHotel(d)
<1>1. /\ hotel \in Hotels /\ points \in Seq(Points \cup {Unknown}) /\ Distinct(points)
      /\ \A e \in DOMAIN plan : plan[e].hotel \in Hotels
      /\ DOMAIN plan = 1..Len(plan) /\ Len(plan) \in Nat
  BY DayTyped DEF Assembling, TripFits, IsTrip
<1>2. previous \in Hotels \cup {Null}
  <2>1. CASE d = 1
    BY <2>1 DEF PreviousHotel
  <2>2. CASE d # 1
    <3>1. d - 1 \in DOMAIN plan /\ previous = plan[d - 1].hotel
      BY <2>2, <1>1 DEF PreviousHotel
    <3> QED BY <3>1, <1>1
  <2> QED BY <2>1, <2>2
<1>3. hotel \in Nodes /\ previous \in Nodes \cup {Null}
  BY <1>1, <1>2 DEF Nodes, Places
<1>4. /\ points \in Seq(Nodes)
      /\ \A i \in DOMAIN points : points[i] \in Points \cup {Unknown}
  <2>1. \A i \in DOMAIN points : points[i] \in Points \cup {Unknown}
    BY <1>1
  <2>2. Points \cup {Unknown} \subseteq Nodes
    BY DEF Nodes, Places
  <2> QED BY <1>1, <2>1, <2>2
<1>5. hotel \notin Range(points)
  <2>1. hotel \notin Points \cup {Unknown}
    BY <1>1, PlannerConstants DEF Places
  <2> QED BY <2>1, <1>4 DEF Range
<1> HIDE DEF hotel, points, previous
<1>6. \A leg \in Range(LegPairs(previous, hotel, points)) : leg \in Nodes \X Nodes /\ leg[1] # leg[2]
  <2> DEFINE N == Nodes
  <2>1. /\ hotel \in N /\ previous \in N \cup {Null}
        /\ points \in Seq(N) /\ Distinct(points) /\ hotel \notin Range(points)
    BY <1>1, <1>3, <1>4, <1>5
  <2>2. \A leg \in Range(LegPairs(previous, hotel, points)) : leg \in N \X N /\ leg[1] # leg[2]
    <3> HIDE DEF N
    <3> QED BY <2>1, LegsDiffer
  <2> QED BY <2>2
<1>7. \A leg \in Range(DayLegs(d)) : leg \in Nodes \X Nodes /\ leg[1] # leg[2]
  BY <1>6 DEF DayLegs, hotel, points, previous
<1> QED BY <1>7 DEF Asked, Pairs

LEMMA TripStep == TripInv /\ [Next]_vars => TripInv'
<1> SUFFICES ASSUME TripInv, [Next]_vars PROVE TripInv'
  OBVIOUS
<1>0. /\ TypeOK
      /\ stage \in {"points", "hotels", "edges", "solve"} => days = <<>>
      /\ stage \in {"ask", "wait"} => Assembling /\ Len(days) < Len(plan)
      /\ stage = "solve" /\ promised => Covers(chosen \cup hotels, edges)
      /\ Covers(covered, ready)
      /\ DaysFit
  BY DEF TripInv
<1>a. ASSUME NEW kind \in {"check", "generate"}, NEW S \in Selections, Ask(kind, S)
      PROVE  TripInv'
  <2>1. /\ op' = kind /\ chosen' = S /\ stage' = "points" /\ hotels' = {} /\ edges' = {}
        /\ promised' = FALSE /\ plan' = <<>> /\ bookings' = {} /\ directions' = <<>>
        /\ days' = <<>>
        /\ published' = published /\ ready' = ready /\ covered' = covered /\ edits' = edits
    BY <1>a DEF Ask, database
  <2>2. S \subseteq Points
    BY DEF Selections
  <2>3. /\ \A T : <<>> \in Seq(T)
        /\ Len(<<>>) = 0 /\ DOMAIN (<<>>) = {}
    OBVIOUS
  <2>4. TypeOK'
    <3>1. /\ plan' \in Seq(Days) /\ Len(days') <= Len(plan')
          /\ days' \in Seq([date : Nat, hotel : Hotels, sequence : Seq(Items)])
          /\ DOMAIN directions' = {}
      BY <2>1, <2>3
    <3> QED BY <1>0, <2>1, <2>2, <3>1 DEF TypeOK
  <2>5. DaysFit'
    BY <2>1, <2>3 DEF DaysFit
  <2>6. Covers(covered, ready)'
    BY <1>0, <2>1 DEF Covers
  <2> QED BY <2>1, <2>4, <2>5, <2>6 DEF TripInv
<1>b. CASE Refuse
  <2>1. /\ stage \in {"points", "hotels", "edges", "solve"} /\ stage' = "idle"
        /\ UNCHANGED <<published, ready, covered, edits, op, chosen, hotels, edges, promised,
                       plan, bookings, directions, days>>
    BY <1>b DEF Refuse, database, context
  <2>2. TypeOK'
    BY <1>0, <2>1 DEF TypeOK
  <2>3. DaysFit'
    BY <1>0, <2>1, DaysStayFit
  <2>4. Covers(covered, ready)'
    BY <1>0, <2>1 DEF Covers
  <2> QED BY <2>1, <2>2, <2>3, <2>4 DEF TripInv
<1>c. CASE ReadPoints
  <2>1. /\ stage = "points" /\ stage' = "hotels"
        /\ UNCHANGED <<published, ready, covered, edits, op, chosen, hotels, edges, promised,
                       plan, bookings, directions, days>>
    BY <1>c DEF ReadPoints, database, context
  <2>2. TypeOK'
    BY <1>0, <2>1 DEF TypeOK
  <2>3. DaysFit'
    BY <1>0, <2>1, DaysStayFit
  <2>4. Covers(covered, ready)'
    BY <1>0, <2>1 DEF Covers
  <2> QED BY <1>0, <2>1, <2>2, <2>3, <2>4 DEF TripInv
<1>d. CASE ReadHotels
  <2>1. /\ stage = "hotels" /\ stage' = "edges" /\ hotels' = published \cap Hotels
        /\ UNCHANGED <<published, ready, covered, edits, op, chosen, edges, promised,
                       plan, bookings, directions, days>>
    BY <1>d DEF ReadHotels, database
  <2>2. TypeOK'
    BY <1>0, <2>1 DEF TypeOK
  <2>3. DaysFit'
    BY <1>0, <2>1, DaysStayFit
  <2>4. Covers(covered, ready)'
    BY <1>0, <2>1 DEF Covers
  <2> QED BY <1>0, <2>1, <2>2, <2>3, <2>4 DEF TripInv
<1>e. CASE ReadEdges
  <2> DEFINE nodes == chosen \cup hotels
             rows == ready \cap (nodes \X nodes)
  <2>1. /\ stage = "edges" /\ edges' = rows
        /\ \/ /\ covered' = IF Covers(nodes, rows) THEN nodes ELSE {}
              /\ stage' = "idle" /\ promised' = promised
           \/ /\ promised' = (nodes \subseteq covered)
              /\ covered' = {} /\ stage' = "solve"
        /\ UNCHANGED <<published, ready, op, chosen, hotels, plan, bookings, directions,
                       days, edits>>
    BY <1>e DEF ReadEdges
  <2>2. days = <<>> /\ days' = <<>>
    BY <1>0, <2>1
  <2>3. DaysFit'
    <3>1. DOMAIN (<<>>) = {}
      OBVIOUS
    <3> QED BY <2>2, <3>1 DEF DaysFit
  <2>4. nodes \subseteq Places /\ rows \subseteq Places \X Places
    BY <1>0 DEF TypeOK, Places
  <2>5. covered' \subseteq Places /\ promised' \in BOOLEAN
    BY <1>0, <2>1, <2>4 DEF TypeOK
  <2>6. TypeOK'
    BY <1>0, <2>1, <2>4, <2>5 DEF TypeOK
  <2>7. Covers(covered', ready)
    <3>1. Covers({}, ready)
      BY DEF Covers
    <3>2. Covers(nodes, rows) => Covers(nodes, ready)
      BY DEF Covers
    <3> QED BY <2>1, <3>1, <3>2
  <2>8. nodes \subseteq covered => Covers(nodes, rows)
    <3>1. \A a, b \in nodes : <<a, b>> \in ready => <<a, b>> \in rows
      OBVIOUS
    <3> HIDE DEF nodes, rows
    <3> QED BY <1>0, <3>1 DEF Covers
  <2>9. Covers(covered, ready)'
    BY <2>1, <2>7 DEF Covers
  <2>10. stage' = "solve" /\ promised' => Covers(nodes, rows)
    BY <2>1, <2>8
  <2>11. (stage = "solve" /\ promised => Covers(chosen \cup hotels, edges))'
    BY <2>1, <2>10 DEF Covers
  <2>12. stage' \in {"idle", "solve"}
    BY <2>1
  <2> QED BY <2>2, <2>3, <2>6, <2>9, <2>11, <2>12 DEF TripInv
<1>f. ASSUME stage = "solve", NEW solution \in Solutions, Solve(solution)
      PROVE  TripInv'
  <2>1. /\ plan' = solution
        /\ IF \A d \in DOMAIN solution : solution[d].hotel \in hotels
           THEN bookings' = BuildHotelBookingSegments(solution) /\ stage' = "ask"
           ELSE stage' = "idle" /\ bookings' = bookings
        /\ UNCHANGED <<published, ready, covered, edits, op, chosen, hotels, edges, promised,
                       directions, days>>
    BY <1>f DEF Solve, database, context
  <2>2. days = <<>> /\ days' = <<>> /\ DOMAIN (<<>>) = {} /\ Len(<<>>) = 0
    BY <1>0, <1>f, <2>1
  <2>3. chosen \subseteq Points /\ hotels \subseteq Hotels
    BY <1>0 DEF TypeOK
  <2>4. IsTrip(solution) /\ TripFits(solution)
    BY <2>3, SolutionIsTrip, SolutionFits
  <2>5. bookings' \subseteq Bookings
    <3>1. CASE \A d \in DOMAIN solution : solution[d].hotel \in hotels
      <4>1. \A d \in DOMAIN solution : solution[d].hotel \in Hotels
        BY <3>1, <2>3
      <4>2. bookings' = BuildHotelBookingSegments(solution)
        BY <3>1, <2>1
      <4> QED BY <2>4, <4>1, <4>2, BookingsTyped
    <3>2. CASE ~ \A d \in DOMAIN solution : solution[d].hotel \in hotels
      BY <3>2, <1>0, <2>1 DEF TypeOK
    <3> QED BY <3>1, <3>2
  <2>6. solution \in Seq(Days) /\ Len(solution) \in Nat \ {0}
    BY <2>4 DEF TripFits, IsTrip
  <2>7. stage' \in {"idle", "ask"}
    BY <2>1
  <2>8. Len(days') <= Len(plan') /\ Len(days') < Len(plan')
    BY <2>1, <2>2, <2>6
  <2>9. TypeOK'
    BY <1>0, <2>1, <2>5, <2>6, <2>7, <2>8 DEF TypeOK
  <2>10. DaysFit'
    BY <2>2 DEF DaysFit
  <2>11. Covers(covered, ready)'
    BY <1>0, <2>1 DEF Covers
  <2>12. promised => Covers(chosen \cup hotels, edges)
    BY <1>0, <1>f
  <2>13. stage' = "ask" => Assembling'
    <3> SUFFICES ASSUME stage' = "ask" PROVE Assembling'
      OBVIOUS
    <3>1. /\ \A d \in DOMAIN solution : solution[d].hotel \in hotels
          /\ bookings' = BuildHotelBookingSegments(solution)
      BY <2>1
    <3>2. /\ IsTrip(plan') /\ TripFits(plan')
          /\ bookings' = BuildHotelBookingSegments(plan')
          /\ \A d \in DOMAIN plan' : plan'[d].hotel \in hotels'
      BY <2>1, <2>4, <3>1
    <3>3. (promised => Covers(chosen \cup hotels, edges))'
      BY <2>1, <2>12 DEF Covers
    <3>4. chosen' \subseteq Points /\ hotels' \subseteq Hotels
      BY <2>1, <2>3
    <3> QED BY <3>2, <3>3, <3>4 DEF Assembling
  <2> QED BY <2>7, <2>8, <2>9, <2>10, <2>11, <2>13 DEF TripInv
<1>g. CASE AskDirections
  <2>1. /\ stage = "ask" /\ stage' = "wait"
        /\ directions' = [leg \in DOMAIN directions \cup (Asked(Today) \ DOMAIN directions) |->
                             IF leg \in Asked(Today) \ DOMAIN directions THEN "waiting"
                             ELSE directions[leg]]
        /\ UNCHANGED <<published, ready, covered, edits, op, chosen, hotels, edges, promised,
                       plan, bookings, days>>
    BY <1>g DEF AskDirections, database, context
  <2>2. Assembling /\ Len(days) < Len(plan)
    BY <1>0, <2>1
  <2>3. Today \in DOMAIN plan
    <3>1. Len(days) \in Nat
      BY <1>0 DEF TypeOK
    <3> QED BY <2>2, <3>1 DEF Today, Assembling, IsTrip
  <2>4. Asked(Today) \subseteq Pairs
    BY <1>0, <2>2, <2>3, AskedPairs
  <2>5. /\ DOMAIN directions' \subseteq Pairs
        /\ \A leg \in DOMAIN directions' : directions'[leg] \in {"waiting", "settled"}
    <3>1. /\ DOMAIN directions \subseteq Pairs
          /\ \A leg \in DOMAIN directions : directions[leg] \in {"waiting", "settled"}
      BY <1>0 DEF TypeOK
    <3> QED BY <2>1, <2>4, <3>1
  <2>6. TypeOK'
    BY <1>0, <2>1, <2>5 DEF TypeOK
  <2>7. DaysFit'
    BY <1>0, <2>1, DaysStayFit
  <2>8. Covers(covered, ready)'
    BY <1>0, <2>1 DEF Covers
  <2>9. Assembling'
    BY <2>1, <2>2 DEF Assembling, Covers
  <2> QED BY <2>1, <2>2, <2>6, <2>7, <2>8, <2>9 DEF TripInv
<1>h. ASSUME NEW leg \in Pairs, Answer(leg) PROVE TripInv'
  <2>1. /\ stage = "wait" /\ leg \in DOMAIN directions
        /\ directions' = [directions EXCEPT ![leg] = "settled"]
        /\ UNCHANGED <<published, ready, covered, edits, op, chosen, hotels, edges, promised,
                       stage, plan, bookings, days>>
    BY <1>h DEF Answer, database, context
  <2>2. /\ DOMAIN directions' \subseteq Pairs
        /\ \A k \in DOMAIN directions' : directions'[k] \in {"waiting", "settled"}
    BY <1>0, <2>1 DEF TypeOK
  <2>3. TypeOK'
    BY <1>0, <2>1, <2>2 DEF TypeOK
  <2>4. DaysFit'
    BY <1>0, <2>1, DaysStayFit
  <2>5. Covers(covered, ready)'
    BY <1>0, <2>1 DEF Covers
  <2>6. Assembling'
    BY <1>0, <2>1 DEF Assembling, Covers
  <2> QED BY <1>0, <2>1, <2>3, <2>4, <2>5, <2>6 DEF TripInv
<1>i. CASE FinishDay
  <2>1. /\ stage = "wait"
        /\ IF Range(plan[Today].points) \subseteq chosen
           THEN /\ days' = Append(days, GeneratedDay(Today))
                /\ stage' = IF Today = Len(plan) THEN "idle" ELSE "ask"
           ELSE stage' = "idle" /\ days' = days
        /\ UNCHANGED <<published, ready, covered, edits, op, chosen, hotels, edges, promised,
                       plan, bookings, directions>>
    BY <1>i DEF FinishDay, database, context
  <2>2. Assembling /\ Len(days) < Len(plan) /\ IsTrip(plan)
    BY <1>0, <2>1 DEF Assembling
  <2>3. Assembling'
    BY <2>1, <2>2 DEF Assembling, Covers
  <2>4. Covers(covered, ready)'
    BY <1>0, <2>1 DEF Covers
  <2>5. CASE ~ (Range(plan[Today].points) \subseteq chosen)
    <3>1. stage' = "idle" /\ days' = days
      BY <2>1, <2>5
    <3>2. TypeOK'
      BY <1>0, <2>1, <3>1 DEF TypeOK
    <3>3. DaysFit'
      BY <1>0, <2>1, <3>1, DaysStayFit
    <3> QED BY <2>4, <3>1, <3>2, <3>3 DEF TripInv
  <2>6. CASE Range(plan[Today].points) \subseteq chosen
    <3>1. PICK day : day = GeneratedDay(Today)
      OBVIOUS
    <3>2. /\ days' = Append(days, day)
          /\ stage' = IF Today = Len(plan) THEN "idle" ELSE "ask"
      BY <2>1, <2>6, <3>1
    <3>3. /\ Len(days) \in Nat /\ Today = Len(days) + 1 /\ Today \in DOMAIN plan
          /\ Len(plan) \in Nat /\ DOMAIN plan = 1..Len(plan)
      BY <1>0, <2>2 DEF TypeOK, Today, IsTrip
    <3>4. DayFits(day, Today, plan, promised)
      BY <2>2, <2>6, <3>1, <3>3, DayIsFit
    <3>5. PICK D : D = [date : Nat, hotel : Hotels, sequence : Seq(Items)]
      OBVIOUS
    <3>6. day \in D /\ days \in Seq(D)
      BY <1>0, <3>4, <3>5 DEF DayFits, TypeOK
    <3>7. /\ days' \in Seq(D) /\ Len(days') = Len(days) + 1
          /\ DOMAIN days' = 1..(Len(days) + 1) /\ DOMAIN days = 1..Len(days)
          /\ \A d \in 1..Len(days) : days'[d] = days[d]
          /\ days'[Len(days) + 1] = day
      BY <3>2, <3>6
    <3>13. ASSUME NEW m \in Nat, NEW n \in Nat, m < n
           PROVE  m + 1 <= n /\ (m + 1 # n => m + 1 < n)
      BY <3>13
    <3>14. Len(days') <= Len(plan) /\ (Today # Len(plan) => Len(days') < Len(plan))
      <4>1. Len(days) < Len(plan)
        BY <2>2
      <4>2. Len(days) + 1 <= Len(plan) /\ (Len(days) + 1 # Len(plan) => Len(days) + 1 < Len(plan))
        BY <4>1, <3>3, <3>13
      <4> QED BY <4>2, <3>3, <3>7
    <3>8. TypeOK'
      <4>1. days' \in Seq([date : Nat, hotel : Hotels, sequence : Seq(Items)])
        BY <3>5, <3>7
      <4>2. Len(days') <= Len(plan')
        BY <2>1, <3>14
      <4>3. stage' \in {"idle", "ask"}
        BY <3>2
      <4> QED BY <1>0, <2>1, <4>1, <4>2, <4>3 DEF TypeOK
    <3>9. DaysFit'
      <4>1. \A d \in DOMAIN days' : d \in DOMAIN days \/ d = Today
        BY <3>3, <3>7
      <4>2. \A d \in DOMAIN days : d \in DOMAIN plan /\ DayFits(days[d], d, plan, promised)
        BY <1>0 DEF DaysFit
      <4>3. \A d \in DOMAIN days' : d \in DOMAIN plan /\ DayFits(days'[d], d, plan, promised)
        BY <3>3, <3>4, <3>7, <4>1, <4>2
      <4> QED BY <2>1, <4>3 DEF DaysFit
    <3>10. stage' = "ask" => Len(days') < Len(plan')
      BY <2>1, <3>2, <3>14
    <3>11. stage' \in {"idle", "ask"}
      BY <3>2
    <3> QED BY <2>3, <2>4, <3>8, <3>9, <3>10, <3>11 DEF TripInv
  <2> QED BY <2>5, <2>6
<1>j. ASSUME NEW place \in Places, EditPlace(place) PROVE TripInv'
  <2>1. /\ edits < MaxEdits /\ stage \in {"idle", "points", "hotels", "edges"}
        /\ published' = (IF place \in published THEN published \ {place}
                         ELSE published \cup {place})
        /\ edits' = edits + 1
        /\ UNCHANGED <<ready, covered, op, chosen, hotels, edges, promised, stage, plan,
                       bookings, directions, days>>
    BY <1>j DEF EditPlace, Editable, context
  <2>2. edits' \in 0..MaxEdits /\ published' \subseteq Places
    BY <1>0, <2>1, PlannerConstants DEF TypeOK
  <2>3. TypeOK'
    BY <1>0, <2>1, <2>2 DEF TypeOK
  <2>4. DaysFit'
    BY <1>0, <2>1, DaysStayFit
  <2>5. Covers(covered, ready)'
    BY <1>0, <2>1 DEF Covers
  <2> QED BY <1>0, <2>1, <2>3, <2>4, <2>5 DEF TripInv
<1>k. ASSUME NEW rows \in EdgeSets, EditEdges(rows) PROVE TripInv'
  <2>1. /\ edits < MaxEdits /\ stage \in {"idle", "points", "hotels", "edges"}
        /\ ready' = rows /\ covered' = (IF Covers(covered, rows) THEN covered ELSE {})
        /\ edits' = edits + 1
        /\ UNCHANGED <<published, op, chosen, hotels, edges, promised, stage, plan,
                       bookings, directions, days>>
    BY <1>k DEF EditEdges, Editable, context
  <2>2. edits' \in 0..MaxEdits /\ ready' \subseteq Places \X Places /\ covered' \subseteq Places
    BY <1>0, <2>1, PlannerConstants DEF TypeOK
  <2>3. TypeOK'
    BY <1>0, <2>1, <2>2 DEF TypeOK
  <2>4. DaysFit'
    BY <1>0, <2>1, DaysStayFit
  <2>5. Covers(covered', rows)
    BY <2>1 DEF Covers
  <2>6. Covers(covered, ready)'
    BY <2>1, <2>5 DEF Covers
  <2> QED BY <1>0, <2>1, <2>3, <2>4, <2>6 DEF TripInv
<1>l. CASE UNCHANGED vars
  <2>1. UNCHANGED <<published, ready, op, stage, chosen, hotels, edges, plan, bookings,
                    directions, days, covered, promised, edits>>
    BY <1>l DEF vars
  <2>2. TypeOK'
    BY <1>0, <2>1 DEF TypeOK
  <2>3. DaysFit'
    BY <1>0, <2>1, DaysStayFit
  <2>4. Covers(covered, ready)'
    BY <1>0, <2>1 DEF Covers
  <2>5. (stage = "solve" /\ promised => Covers(chosen \cup hotels, edges))'
    BY <1>0, <2>1 DEF Covers
  <2>6. (stage \in {"ask", "wait"} => Assembling /\ Len(days) < Len(plan))'
    BY <1>0, <2>1 DEF Assembling, Covers
  <2> QED BY <1>0, <2>1, <2>2, <2>3, <2>4, <2>5, <2>6 DEF TripInv
<1> QED BY <1>a, <1>b, <1>c, <1>d, <1>e, <1>f, <1>g, <1>h, <1>i, <1>j, <1>k, <1>l DEF Next

\* For any places, rows, edits and trip the optimizer may answer, of any length,
\* the days of an itinerary hold together: each starts and ends at a hotel booked
\* for the night, every transport joins the stops around it, there is one lunch,
\* and after a coverage check that promised it no leg is made up
\* (buildGeneratedDays, buildDaySequence, resolveDayStartHotelBookingLink).
THEOREM DaysHoldTogether == Spec => []DaysHold
<1>1. TripInv => DaysHold
  <2> SUFFICES ASSUME TripInv PROVE DaysHold
    OBVIOUS
  <2>1. TypeOK /\ DaysFit
    BY DEF TripInv
  <2>2. /\ days \in Seq([date : Nat, hotel : Hotels, sequence : Seq(Items)])
        /\ DOMAIN days = 1..Len(days) /\ Len(days) \in Nat
    BY <2>1 DEF TypeOK
  <2>3. ASSUME NEW d \in DOMAIN days PROVE DayFits(days[d], d, plan, promised)
    BY <2>1 DEF DaysFit
  <2>4. StaysAreBooked
    <3> SUFFICES ASSUME NEW d \in DOMAIN days
                 PROVE  /\ Morning(days[d]).checkIn <= d - 1
                        /\ d - 1 < Morning(days[d]).checkOut
                        /\ Evening(days[d]).checkIn <= d /\ d < Evening(days[d]).checkOut
                        /\ Evening(days[d]).place = days[d].hotel
                        /\ d > 1 => Morning(days[d]).place = days[d - 1].hotel
      BY DEF StaysAreBooked
    <3>1. /\ Morning(days[d]).checkIn <= d - 1 /\ d - 1 < Morning(days[d]).checkOut
          /\ Evening(days[d]).checkIn <= d /\ d < Evening(days[d]).checkOut
          /\ Evening(days[d]).place = days[d].hotel
          /\ d > 1 => Morning(days[d]).place = plan[d - 1].hotel
      BY <2>3 DEF DayFits
    <3>2. d > 1 => days[d - 1].hotel = plan[d - 1].hotel
      <4>1. d > 1 => d - 1 \in DOMAIN days
        BY <2>2
      <4> QED BY <4>1, <2>3 DEF DayFits
    <3> QED BY <3>1, <3>2
  <2>5. SequenceChained
    BY <2>3 DEF SequenceChained, DayFits
  <2>6. LunchOnce
    BY <2>3 DEF LunchOnce, DayFits
  <2>7. NothingMadeUp
    BY <2>3 DEF NothingMadeUp, DayFits
  <2> QED BY <2>1, <2>4, <2>5, <2>6, <2>7 DEF DaysHold
<1> QED BY TripInit, TripStep, <1>1, PTL DEF Spec

=============================================================================
