CONSTANTS
  a1 = a1
  a2 = a2
  a3 = a3
  t1 = t1
  h1 = h1
  i1 = i1
  i2 = i2
  Request = {a1, a2, a3, t1, h1}
  Creds = {t1}
  Health = {h1}
  Ip = {i1, i2}
  From <- Where
  Max = 3
  Reserved = 1
  MaxPerIp = 2
  PublicPerIp = 1
SPECIFICATION Spec
PROPERTY ReserveKept
