SPECIFICATION Spec
CONSTANTS
  Name = {n1}
  Req = {r1, r2}
  Session = {s1, s2}
  Pid = {p1, p2}
  Reports = {"idle"}
  None = None
PROPERTIES
  DeadStaysDead
