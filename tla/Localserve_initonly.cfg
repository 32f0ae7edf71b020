\* A failing -initonly over a directory a served localserve left behind.
SPECIFICATION Spec
PROPERTY DeliveredMailKept
