\* Two readers, two administrators and two keys of the planner's cache; two
\* users and two failures for the digest. No symmetry, as two properties are
\* temporal. The constants of the other parts are empty.
SPECIFICATION FairPartsSpec
CONSTANTS
  Parts = {"planner", "notices"}
  Keys = {"cities", "points"}
  Tables = {"spot", "airport"}
  Reads <- MCReads
  Announced = {"spot"}
  Editors = {a1, a2}
  Readers = {q1, q2}
  TTL = 1
  MaxEdits = 1
  Users = {u1, u2}
  MaxFaults = 2
  Admins = {}
  Dates = {}
  DayTypes = {}
  Years = {}
  MaxRows = 0
  LocationKeys = {}
  AirportKeys = {}
  KeysAtStart = {{}}
  ImportFiles = {}
  PlaceIds = {}
  PlaceKind = "none"
  Posts = {}
  Forms = {}
INVARIANTS
  StaleOnlyIfMissed
  OncePerMorning
PROPERTIES
  EditsAreSeen
  DigestComes
