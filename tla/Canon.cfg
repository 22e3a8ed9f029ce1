SPECIFICATION Spec
CONSTANTS
  b1 = b1  b2 = b2  t1 = t1  t2 = t2
  dung = dung  shen = shen  gomaya = gomaya
  dungEn = dungEn  dungMr = dungMr  dungSa = dungSa  soilEn = soilEn
  Concepts = {dung, shen, gomaya}
  Books = {b1, b2}
  Labels = {dungEn, dungMr, dungSa, soilEn}
  NoLabel = NoLabel
  LabelIn <- Relabelled
  Near <- AllNear
  Tasks = {t1, t2}
  BookOf <- TwoDeliveries
  Limit = 3
  BatchSize = 1
  MaxRetries = 1
INVARIANTS TypeOK NearConceptsLinked LinksAreJustified
CHECK_DEADLOCK FALSE
