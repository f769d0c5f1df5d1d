SPECIFICATION Spec
CONSTANTS
  t1 = t1
  t2 = t2
  t3 = t3
  s1 = s1
  l1 = l1
  x1 = x1
  Thr = {t1, t2, t3}
  Root = t1
  SO = {s1}
  Lock = {}
  Loc = {x1}
  NoVTS = NoVTS
  NoRace = NoRace
  Kind = {"plain"}
  MaxTick = 2
  MaxHist = 6
INVARIANTS FirstRaceExact LaterRacesFound
SYMMETRY Symm
