SPECIFICATION Spec
CONSTANTS
    t1 = t1
    t2 = t2
    t3 = t3
    Types = {t1, t2, t3}
    MaxCount = 2
    Width = 2
    Flaws = {"name", "image", "workers"}
SYMMETRY TypeSymmetry
INVARIANTS FinalizerUpdateAdmitted AdmittedDeployable TotalWithinMax
