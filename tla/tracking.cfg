\* Two connections and two requests of one page.
SPECIFICATION FairSpec
CONSTANTS
  None = None
  Unread = Unread
  s1 = s1
  s2 = s2
  l1 = l1
  l2 = l2
  Streams = {s1, s2}
  Loads = {l1, l2}
  LastVersion = 2
  WireBound = 1
INVARIANTS ListenersCounted
PROPERTIES StreamMonotonic PageCatchesUp
