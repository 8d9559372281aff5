SPECIFICATION Spec
CONSTANTS
  PathDevs = {p1, p2, p3, p4}
  DmDevs = {d1}
  Blacklisted = {p4}
  Anonymous = {p3}
  Wwids = {w1, w2}
  NoWwid = NoWwid
  MaxUevents = 3
  DmMaps = {m1}
  MaxChanges = 5
INVARIANTS OrderKept NoLostEvent
PROPERTIES UeventsHandled GoneMapsDropped
CHECK_DEADLOCK FALSE
